---- MODULE Spec2Model ----
(***************************************************************************)
(* Conversation, messaging and offer-negotiation engine of the             *)
(* marketplace backend (routes/conversations.js with the block routes,     *)
(* routes/products.js, models/conversation.js, models/notification.js).    *)
(*                                                                         *)
(* The MongoDB collections are the state.  A handler that runs alone is    *)
(* one action; for the overlapping-request specifications a handler is     *)
(* cut at its awaits (find, findOne, save), which are the only points      *)
(* where Node.js lets another request run.                                 *)
(*                                                                         *)
(* Inert request fields (replyTo, tempId, createdAt, product name and      *)
(* images) are passed through by the handlers without influencing any      *)
(* decision and are left out of the records.                               *)
(***************************************************************************)
EXTENDS Integers, Sequences, FiniteSets, TLC

VARIABLES
    conversations,  \* Conversation collection, in insertion order (index = _id)
    blockList,      \* BlockList collection: number of documents per <<blocker, blocked>>
    suppressed,     \* history: <<conversation, messageId, sender>> of posts processed while blocked
    lastAlloc,      \* history: per conversation, the latest two id allocations
    resp,           \* the latest HTTP response
    reqs,           \* handlers in flight (overlapping-request specifications)
    conversations2, \* second execution (two-execution specification): Conversation collection
    blockList2,     \* second execution: BlockList collection
    resp2,          \* second execution: the latest HTTP response
    diff,           \* the one block entry <<blocker, blocked>> the first execution has had in addition
    products,       \* Product collection
    notifications,  \* Notification collection, in insertion order
    nextOfferId,    \* the next _id Mongoose gives an offerRequests subdocument
    polls           \* polling clients: per <<reader, conversation>>, the cursor and what was received

convVars == <<conversations, blockList, suppressed, lastAlloc>>
twinVars == <<conversations2, blockList2, resp2, diff>>
offerVars == <<products, notifications, nextOfferId>>
vars == <<convVars, resp, reqs, twinVars, offerVars, polls>>

----------------------------------------------------------------------------
(* Bounds of the model *)

MaxConvs == 1      \* conversations that may be created
MaxMsgs == 2       \* message ids that may be allocated, over all conversations
MaxBlocks == 1     \* documents in the BlockList collection

Users == {1, 2, 3}
NoUser == 0        \* a missing participantId / an undefined find() result
Texts == {"", "hi"}
NoId == -1         \* the lastId query parameter is absent

Min(S) == CHOOSE x \in S : \A y \in S : x <= y
Range(s) == {s[i] : i \in 1..Len(s)}

----------------------------------------------------------------------------
(* Conversation store: routes/conversations.js *)

\* [req.user._id, participantId].sort()
SortPair(a, b) == IF a <= b THEN <<a, b>> ELSE <<b, a>>

\* faulty variant: {$in: participants} in place of {$all: participants}
FindConversation_In(convs, participants) ==
    LET hits == {i \in 1..Len(convs) :
                    \E k \in 1..Len(participants) :
                        participants[k] \in Range(convs[i].participants)}
    IN  IF hits = {} THEN 0 ELSE Min(hits)

\* Conversation.findOne({participants: {$all: participants}}): the first
\* document whose participants array holds every listed value; 0 for null
FindConversation(convs, participants) ==
    LET hits == {i \in 1..Len(convs) :
                    \A k \in 1..Len(participants) :
                        participants[k] \in Range(convs[i].participants)}
    IN  IF hits = {} THEN 0 ELSE Min(hits)

\* new Conversation({participants, nextMessageId: 1})
NewConversation(participants) ==
    [participants |-> participants, messages |-> <<>>, nextMessageId |-> 1]

\* ConversationSchema.path('participants').validate
ParticipantsValid(value) == Len(value) = 2

\* faulty variant: the participant test is passed by every caller
IsParticipant_Any(doc, user) == TRUE

\* conversation.participants.some(p => p._id.toString() === req.user._id.toString())
IsParticipant(doc, user) == user \in Range(doc.participants)

\* conversation.participants.find(p => p.toString() !== req.user._id.toString())
OtherUserId(doc, user) ==
    LET others == {k \in 1..Len(doc.participants) : doc.participants[k] # user}
    IN  IF others = {} THEN NoUser ELSE doc.participants[Min(others)]

\* BlockList.findOne({blocker, blocked}) is not null
BlockExists(blocks, blocker, blocked) ==
    /\ blocker \in Users
    /\ blocked \in Users
    /\ blocks[<<blocker, blocked>>] > 0

\* res.status(status).json(...): the handler, the HTTP status and the id returned
Response(op, user, target, status, value) ==
    [op |-> op, status |-> status, value |-> value]

\* faulty variant: the counter advances only when the message is stored
PostMessageDelta_SkipWhenBlocked(doc, blockExists, user, text) ==
    LET currentMessageId == IF doc.nextMessageId = 0 THEN 1 ELSE doc.nextMessageId
    IN  [messageId |-> currentMessageId,
         setNext   |-> IF blockExists THEN currentMessageId ELSE currentMessageId + 1,
         push      |-> IF blockExists THEN <<>>
                       ELSE <<[messageId |-> currentMessageId, sender |-> user,
                               text |-> text, type |-> "message"]>>]

\* faulty variant: the message is stored whatever the block lookup returned
PostMessageDelta_AlwaysPush(doc, blockExists, user, text) ==
    LET currentMessageId == IF doc.nextMessageId = 0 THEN 1 ELSE doc.nextMessageId
    IN  [messageId |-> currentMessageId,
         setNext   |-> currentMessageId + 1,
         push      |-> <<[messageId |-> currentMessageId, sender |-> user,
                          text |-> text, type |-> "message"]>>]

\* What PostMessage computes from the loaded document and the block lookup:
\* the allocated id and the changes save() sends ($set nextMessageId, $push messages)
PostMessageDelta(doc, blockExists, user, text) ==
    LET currentMessageId == IF doc.nextMessageId = 0 THEN 1 ELSE doc.nextMessageId
    IN  [messageId |-> currentMessageId,
         setNext   |-> currentMessageId + 1,
         push      |-> IF blockExists THEN <<>>
                       ELSE <<[messageId |-> currentMessageId, sender |-> user,
                               text |-> text, type |-> "message"]>>]

\* What product-reply computes from the loaded document
ProductReplyDelta(doc, user) ==
    LET currentMessageId == IF doc.nextMessageId = 0 THEN 1 ELSE doc.nextMessageId
    IN  [messageId |-> currentMessageId,
         setNext   |-> currentMessageId + 1,
         push      |-> <<[messageId |-> currentMessageId, sender |-> user,
                          text |-> "Product Reply", type |-> "product"]>>]

\* faulty variant: the save writes the new message over the stored array
SaveConversation_Replace(convs, cid, delta) ==
    [convs EXCEPT ![cid].nextMessageId = delta.setNext,
                  ![cid].messages = delta.push]

\* conversation.save() of a loaded document: Mongoose sends the modified paths
\* only, {$set: {nextMessageId}, $push: {messages}}, applied to the stored document
SaveConversation(convs, cid, delta) ==
    [convs EXCEPT ![cid].nextMessageId = delta.setNext,
                  ![cid].messages = @ \o delta.push]

\* faulty variant: a block entry in either direction hides messages
FetchMessages_EitherBlock(convs, blocks, user, cid, lastId) ==
    IF cid \notin 1..Len(convs) THEN [status |-> 404, messages |-> <<>>]
    ELSE IF ~IsParticipant(convs[cid], user) THEN [status |-> 403, messages |-> <<>>]
    ELSE
        LET doc == convs[cid]
            After(msg) == msg.messageId > lastId
            since == IF lastId # NoId THEN SelectSeq(doc.messages, After)
                     ELSE doc.messages
            otherUserId == OtherUserId(doc, user)
            Visible(msg) == msg.sender = user \/ msg.type = "product"
        IN  [status |-> 200,
             messages |-> IF \/ BlockExists(blocks, otherUserId, user)
                             \/ BlockExists(blocks, user, otherUserId)
                          THEN SelectSeq(since, Visible) ELSE since]

\* GET /:conversationId/messages: a read; status and the message list returned
FetchMessages(convs, blocks, user, cid, lastId) ==
    IF cid \notin 1..Len(convs) THEN [status |-> 404, messages |-> <<>>]
    ELSE IF ~IsParticipant(convs[cid], user) THEN [status |-> 403, messages |-> <<>>]
    ELSE
        LET doc == convs[cid]
            After(msg) == msg.messageId > lastId
            since == IF lastId # NoId THEN SelectSeq(doc.messages, After)
                     ELSE doc.messages
            otherUserId == OtherUserId(doc, user)
            Visible(msg) == msg.sender = user \/ msg.type = "product"
        IN  [status |-> 200,
             messages |-> IF BlockExists(blocks, otherUserId, user)
                          THEN SelectSeq(since, Visible) ELSE since]

\* history of id allocations: the latest becomes the previous
Allocated(last, op, id) ==
    [op |-> op, id |-> id, prevOp |-> last.op, prevId |-> last.id]

----------------------------------------------------------------------------
(* The handlers as run without another request in between: the collections *)
(* after the handler and its response                                      *)

\* POST / (create or retrieve a conversation)
GetOrCreate(convs, user, participantId) ==
    IF participantId = NoUser
    THEN [conversations |-> convs,
          resp |-> Response("GetOrCreate", user, participantId, 400, 0)]
    ELSE LET participants == SortPair(user, participantId)
             found == FindConversation(convs, participants)
         IN  IF found # 0
             THEN [conversations |-> convs,
                   resp |-> Response("GetOrCreate", user, participantId, 200, found)]
             ELSE IF ParticipantsValid(participants)
             THEN [conversations |-> Append(convs, NewConversation(participants)),
                   resp |-> Response("GetOrCreate", user, participantId, 200, Len(convs) + 1)]
             ELSE [conversations |-> convs,
                   resp |-> Response("GetOrCreate", user, participantId, 500, 0)]

\* faulty variant: a block entry in either direction suppresses the message
PostMessage_EitherBlock(convs, blocks, user, cid, text) ==
    IF text = ""
    THEN [conversations |-> convs, blocked |-> FALSE,
          resp |-> Response("PostMessage", user, cid, 400, 0)]
    ELSE IF cid \notin 1..Len(convs)
    THEN [conversations |-> convs, blocked |-> FALSE,
          resp |-> Response("PostMessage", user, cid, 404, 0)]
    ELSE IF ~IsParticipant(convs[cid], user)
    THEN [conversations |-> convs, blocked |-> FALSE,
          resp |-> Response("PostMessage", user, cid, 403, 0)]
    ELSE LET doc == convs[cid]
             blockExists == \/ BlockExists(blocks, OtherUserId(doc, user), user)
                            \/ BlockExists(blocks, user, OtherUserId(doc, user))
             delta == PostMessageDelta(doc, blockExists, user, text)
         IN  [conversations |-> SaveConversation(convs, cid, delta),
              blocked |-> blockExists,
              resp |-> Response("PostMessage", user, cid, 200, delta.messageId)]

\* faulty variant: a blocked sender is refused
PostMessage_RefuseBlocked(convs, blocks, user, cid, text) ==
    IF text = ""
    THEN [conversations |-> convs, blocked |-> FALSE,
          resp |-> Response("PostMessage", user, cid, 400, 0)]
    ELSE IF cid \notin 1..Len(convs)
    THEN [conversations |-> convs, blocked |-> FALSE,
          resp |-> Response("PostMessage", user, cid, 404, 0)]
    ELSE IF ~IsParticipant(convs[cid], user)
    THEN [conversations |-> convs, blocked |-> FALSE,
          resp |-> Response("PostMessage", user, cid, 403, 0)]
    ELSE LET doc == convs[cid]
             blockExists == BlockExists(blocks, OtherUserId(doc, user), user)
             delta == PostMessageDelta(doc, blockExists, user, text)
         IN  IF blockExists
             THEN [conversations |-> convs, blocked |-> FALSE,
                   resp |-> Response("PostMessage", user, cid, 403, 0)]
             ELSE [conversations |-> SaveConversation(convs, cid, delta),
                   blocked |-> blockExists,
                   resp |-> Response("PostMessage", user, cid, 200, delta.messageId)]

\* POST /:conversationId/messages
PostMessage(convs, blocks, user, cid, text) ==
    IF text = ""
    THEN [conversations |-> convs, blocked |-> FALSE,
          resp |-> Response("PostMessage", user, cid, 400, 0)]
    ELSE IF cid \notin 1..Len(convs)
    THEN [conversations |-> convs, blocked |-> FALSE,
          resp |-> Response("PostMessage", user, cid, 404, 0)]
    ELSE IF ~IsParticipant(convs[cid], user)
    THEN [conversations |-> convs, blocked |-> FALSE,
          resp |-> Response("PostMessage", user, cid, 403, 0)]
    ELSE LET doc == convs[cid]
             blockExists == BlockExists(blocks, OtherUserId(doc, user), user)
             delta == PostMessageDelta(doc, blockExists, user, text)
         IN  [conversations |-> SaveConversation(convs, cid, delta),
              blocked |-> blockExists,
              resp |-> Response("PostMessage", user, cid, 200, delta.messageId)]

\* POST /:conversationId/product-reply
ProductReply(convs, user, cid, productId) ==
    IF productId = 0
    THEN [conversations |-> convs, resp |-> Response("ProductReply", user, cid, 400, 0)]
    ELSE IF cid \notin 1..Len(convs)
    THEN [conversations |-> convs, resp |-> Response("ProductReply", user, cid, 404, 0)]
    ELSE IF ~IsParticipant(convs[cid], user)
    THEN [conversations |-> convs, resp |-> Response("ProductReply", user, cid, 403, 0)]
    ELSE LET delta == ProductReplyDelta(convs[cid], user)
         IN  [conversations |-> SaveConversation(convs, cid, delta),
              resp |-> Response("ProductReply", user, cid, 200, delta.messageId)]

\* faulty variant: an entry that exists already is answered as a success
Block_Upsert(blocks, user, userId) ==
    IF user = userId
    THEN [blockList |-> blocks, resp |-> Response("Block", user, userId, 400, 0)]
    ELSE IF BlockExists(blocks, user, userId)
    THEN [blockList |-> blocks, resp |-> Response("Block", user, userId, 200, 0)]
    ELSE [blockList |-> [blocks EXCEPT ![<<user, userId>>] = @ + 1],
          resp |-> Response("Block", user, userId, 200, 0)]

\* POST /block/:userId
Block(blocks, user, userId) ==
    IF user = userId
    THEN [blockList |-> blocks, resp |-> Response("Block", user, userId, 400, 0)]
    ELSE IF BlockExists(blocks, user, userId)
    THEN [blockList |-> blocks, resp |-> Response("Block", user, userId, 400, 1)]
    ELSE [blockList |-> [blocks EXCEPT ![<<user, userId>>] = @ + 1],
          resp |-> Response("Block", user, userId, 200, 0)]

\* faulty variant: the entry is left in the collection
Unblock_KeepEntry(blocks, user, userId) ==
    IF ~BlockExists(blocks, user, userId)
    THEN [blockList |-> blocks, resp |-> Response("Unblock", user, userId, 400, 0)]
    ELSE [blockList |-> blocks, resp |-> Response("Unblock", user, userId, 200, 0)]

\* DELETE /unblock/:userId
Unblock(blocks, user, userId) ==
    IF ~BlockExists(blocks, user, userId)
    THEN [blockList |-> blocks, resp |-> Response("Unblock", user, userId, 400, 0)]
    ELSE [blockList |-> [blocks EXCEPT ![<<user, userId>>] = @ - 1],
          resp |-> Response("Unblock", user, userId, 200, 0)]

----------------------------------------------------------------------------
(* Specification Spec: the conversation store and the block registry, one  *)
(* request at a time                                                       *)

NoResponse == Response("none", NoUser, 0, 0, 0)
NoAlloc == [op |-> "none", id |-> 0, prevOp |-> "none", prevId |-> 0]
NoBlocks == [p \in Users \X Users |-> 0]
NoDiff == <<NoUser, NoUser>>

RECURSIVE SumOver(_, _)
SumOver(f, S) == IF S = {} THEN 0
                 ELSE LET x == CHOOSE y \in S : TRUE IN f[x] + SumOver(f, S \ {x})
BlockCount(blocks) == SumOver(blocks, DOMAIN blocks)

\* message ids allocated so far, over all conversations
RECURSIVE AllocCount(_)
AllocCount(convs) ==
    IF convs = <<>> THEN 0
    ELSE (Head(convs).nextMessageId - 1) + AllocCount(Tail(convs))

InitConv ==
    /\ conversations = <<>>
    /\ blockList = NoBlocks
    /\ suppressed = {}
    /\ lastAlloc = [c \in 1..MaxConvs |-> NoAlloc]

IdleTwin ==
    /\ conversations2 = <<>>
    /\ blockList2 = NoBlocks
    /\ resp2 = NoResponse
    /\ diff = NoDiff

IdleOffers ==
    /\ products = <<>>
    /\ notifications = <<>>
    /\ nextOfferId = 1

IdlePolls == polls = <<>>

Init ==
    /\ InitConv
    /\ resp = NoResponse
    /\ reqs = <<>>
    /\ IdleTwin
    /\ IdleOffers
    /\ IdlePolls

\* The response is the handler's value r.resp; Spec keeps no copy of it:
\* suppressed and lastAlloc record what the claims need of the responses.

CallGetOrCreate(user, participantId, cap) ==
    LET r == GetOrCreate(conversations, user, participantId)
    IN  /\ Len(r.conversations) <= cap
        /\ conversations' = r.conversations
        /\ UNCHANGED <<blockList, suppressed, lastAlloc, resp, reqs, twinVars, polls, offerVars>>

CallPostMessage(user, cid, text) ==
    LET r == PostMessage(conversations, blockList, user, cid, text)
    IN  /\ AllocCount(r.conversations) <= MaxMsgs
        /\ conversations' = r.conversations
        /\ suppressed' = IF r.blocked THEN suppressed \cup {<<cid, r.resp.value, user>>}
                         ELSE suppressed
        /\ lastAlloc' = IF r.resp.status = 200
                        THEN [lastAlloc EXCEPT ![cid] = Allocated(@, "PostMessage", r.resp.value)]
                        ELSE lastAlloc
        /\ UNCHANGED <<blockList, resp, reqs, twinVars, polls, offerVars>>

CallProductReply(user, cid, productId) ==
    LET r == ProductReply(conversations, user, cid, productId)
    IN  /\ AllocCount(r.conversations) <= MaxMsgs
        /\ conversations' = r.conversations
        /\ lastAlloc' = IF r.resp.status = 200
                        THEN [lastAlloc EXCEPT ![cid] = Allocated(@, "ProductReply", r.resp.value)]
                        ELSE lastAlloc
        /\ UNCHANGED <<blockList, suppressed, resp, reqs, twinVars, polls, offerVars>>

CallBlock(user, userId) ==
    LET r == Block(blockList, user, userId)
    IN  /\ BlockCount(r.blockList) <= MaxBlocks
        /\ blockList' = r.blockList
        /\ UNCHANGED <<conversations, suppressed, lastAlloc, resp, reqs, twinVars, polls, offerVars>>

CallUnblock(user, userId) ==
    LET r == Unblock(blockList, user, userId)
    IN  /\ blockList' = r.blockList
        /\ UNCHANGED <<conversations, suppressed, lastAlloc, resp, reqs, twinVars, polls, offerVars>>

ConvIds == 1..(MaxConvs + 1)
LastIds == {NoId} \cup (0..MaxMsgs)

Next ==
    \/ \E u \in Users, p \in Users \cup {NoUser} : CallGetOrCreate(u, p, MaxConvs)
    \/ \E u \in Users, c \in ConvIds, t \in Texts : CallPostMessage(u, c, t)
    \/ \E u \in Users, c \in ConvIds, p \in {0, 1} : CallProductReply(u, c, p)
    \/ \E u \in Users, t \in Users : CallBlock(u, t)
    \/ \E u \in Users, t \in Users : CallUnblock(u, t)

Spec == Init /\ [][Next]_vars

----------------------------------------------------------------------------
(* Claims checked under Spec *)

\* C1: on one conversation, a PostMessage returns an id greater than the id
\* allocated before it, and exactly one greater than the id returned by the
\* PostMessage that came immediately before it, blocked or not.
C1_PostIdsGapless ==
    \A c \in 1..Len(conversations) :
        LET a == lastAlloc[c]
        IN  a.op = "PostMessage" =>
               /\ a.id > a.prevId
               /\ a.prevOp = "PostMessage" => a.id = a.prevId + 1
               /\ conversations[c].nextMessageId = a.id + 1

\* two PostMessage calls in a row on one conversation, the second one suppressed
C1_Witness ==
    \E c \in 1..Len(conversations) :
        /\ lastAlloc[c].op = "PostMessage" /\ lastAlloc[c].prevOp = "PostMessage"
        /\ \E a \in Users : <<c, lastAlloc[c].id, a>> \in suppressed
        /\ Len(conversations[c].messages) = 1

\* the messages a reader gets with any cursor
FetchedIds(reader, c) ==
    UNION {{m.messageId : m \in Range(FetchMessages(conversations, blockList, reader, c, l).messages)}
             : l \in LastIds}

\* C3: a message posted by A while B had a block entry against A is in no
\* FetchMessages result of B, with any cursor, in any later state (also after
\* B has unblocked A).
C3_SuppressedNeverDelivered ==
    \A s \in suppressed :
        \A b \in Users \ {s[3]} : s[2] \notin FetchedIds(b, s[1])

\* B blocked A, A posted, B unblocked A, and B's fetch succeeds
C3_Witness ==
    \E s \in suppressed :
        /\ BlockCount(blockList) = 0
        /\ \E b \in Users \ {s[3]} :
              FetchMessages(conversations, blockList, b, s[1], NoId).status = 200

\* C4: sender fidelity: a message A posted while B had a block entry against A
\* is in A's own FetchMessages result.
C4_SenderFidelity ==
    \A s \in suppressed : s[2] \in FetchedIds(s[3], s[1])

\* the other participant has a block entry against the reader
BlockedBy(doc, reader) ==
    \E other \in Range(doc.participants) \ {reader} : blockList[<<other, reader>>] > 0

\* C18: for a participant, FetchMessages returns, in stored order, exactly
\* the stored messages with messageId above the cursor (all of them without
\* a cursor), less, exactly when the other participant has a block entry
\* against the reader, those that are neither the reader's own nor product
\* messages; a block entry of the reader against the other hides nothing.
C18_FetchExact ==
    \A reader \in Users, c \in 1..Len(conversations), since \in LastIds :
        IsParticipant(conversations[c], reader)
        => LET doc == conversations[c]
               Keep(m) == /\ since = NoId \/ m.messageId > since
                          /\ BlockedBy(doc, reader) => (m.sender = reader \/ m.type = "product")
               r == FetchMessages(conversations, blockList, reader, c, since)
           IN  r.status = 200 /\ r.messages = SelectSeq(doc.messages, Keep)

\* user 1 has blocked user 2; of the two messages of user 1, user 2 is given
\* the product message only, and user 1 is given both
C18_Witness ==
    /\ Len(conversations) = 1
    /\ conversations[1].participants = <<1, 2>>
    /\ Len(conversations[1].messages) = 2
    /\ blockList[<<1, 2>>] > 0
    /\ Len(FetchMessages(conversations, blockList, 2, 1, NoId).messages) = 1
    /\ FetchMessages(conversations, blockList, 2, 1, 0).messages[1].type = "product"
    /\ Len(FetchMessages(conversations, blockList, 1, 1, NoId).messages) = 2
    /\ Len(FetchMessages(conversations, blockList, 1, 1, 1).messages) = 1

\* C33: a product reply sent by A while the other participant B has a block
\* entry against A is handled like a text message of A: it is not added to
\* the stored messages and B's FetchMessages does not return it.
C33_ProductReplyConsultsBlocks ==
    [][\A u \in Users, c \in ConvIds, p \in {0, 1} :
          (/\ CallProductReply(u, c, p)
           /\ ProductReply(conversations, u, c, p).resp.status = 200
           /\ BlockedBy(conversations[c], u))
          => /\ conversations'[c].messages = conversations[c].messages
             /\ \A b \in Range(conversations[c].participants) \ {u} :
                   \A m \in Range(FetchMessages(conversations', blockList', b, c, NoId).messages) :
                       m.messageId # ProductReply(conversations, u, c, p).resp.value]_vars

\* C38: the two participants of a conversation are distinct users: a
\* GetOrCreate that names the caller as the other participant creates no
\* conversation.
C38_ParticipantsDistinct ==
    \A c \in 1..Len(conversations) :
        conversations[c].participants[1] # conversations[c].participants[2]

----------------------------------------------------------------------------
(* Specification SpecObserve: the requests of Spec, where each PostMessage *)
(* and each Block leaves in resp its response together with what was true  *)
(* of the stores when the request arrived and what the request changed     *)

\* the reader has a block entry against another participant
Blocks(doc, user) ==
    \E other \in Range(doc.participants) \ {user} : blockList[<<user, other>>] > 0

ObservePostMessage(user, cid, text) ==
    LET r == PostMessage(conversations, blockList, user, cid, text)
        known == cid \in 1..Len(conversations)
        member == known /\ user \in Range(conversations[cid].participants)
    IN  /\ AllocCount(r.conversations) <= MaxMsgs
        /\ conversations' = r.conversations
        /\ suppressed' = IF r.blocked THEN suppressed \cup {<<cid, r.resp.value, user>>}
                         ELSE suppressed
        /\ lastAlloc' = IF r.resp.status = 200
                        THEN [lastAlloc EXCEPT ![cid] = Allocated(@, "PostMessage", r.resp.value)]
                        ELSE lastAlloc
        /\ resp' = [op |-> "PostMessage", status |-> r.resp.status, value |-> r.resp.value,
                    user |-> user, cid |-> cid, text |-> text,
                    known |-> known, member |-> member,
                    recipientBlocks |-> member /\ BlockedBy(conversations[cid], user),
                    senderBlocks |-> member /\ Blocks(conversations[cid], user),
                    stored |-> /\ known
                               /\ r.conversations[cid].messages
                                    = Append(conversations[cid].messages,
                                             [messageId |-> r.resp.value, sender |-> user,
                                              text |-> text, type |-> "message"]),
                    same |-> r.conversations = conversations]
        /\ UNCHANGED <<blockList, reqs, twinVars, polls, offerVars>>

ObserveBlock(user, userId) ==
    LET r == Block(blockList, user, userId)
    IN  /\ BlockCount(r.blockList) <= MaxBlocks
        /\ blockList' = r.blockList
        /\ resp' = [op |-> "Block", status |-> r.resp.status, value |-> r.resp.value,
                    user |-> user, userId |-> userId,
                    existed |-> blockList[<<user, userId>>] > 0,
                    same |-> r.blockList = blockList]
        /\ UNCHANGED <<conversations, suppressed, lastAlloc, reqs, twinVars, polls, offerVars>>

NextObserve ==
    \/ \E u \in Users, p \in Users \cup {NoUser} : CallGetOrCreate(u, p, MaxConvs)
    \/ \E u \in Users, c \in ConvIds, t \in Texts : ObservePostMessage(u, c, t)
    \/ \E u \in Users, c \in ConvIds, p \in {0, 1} : CallProductReply(u, c, p)
    \/ \E u \in Users, t \in Users : ObserveBlock(u, t)
    \/ \E u \in Users, t \in Users : CallUnblock(u, t)

SpecObserve == Init /\ [][NextObserve]_vars

C25_RejectedPostChangesNothing ==
    resp.op = "PostMessage"
    => /\ resp.text = "" => resp.status = 400
       /\ (resp.text # "" /\ ~resp.known) => resp.status = 404
       /\ (resp.text # "" /\ resp.known /\ ~resp.member) => resp.status = 403
       /\ resp.status \in {400, 403, 404}
            <=> (resp.text = "" \/ ~resp.known \/ ~resp.member)
       /\ resp.status \in {400, 403, 404} => resp.same

\* a non-participant is refused on a conversation that holds a message
C25_Witness ==
    /\ resp.op = "PostMessage" /\ resp.status = 403 /\ resp.same
    /\ resp.known /\ ~resp.member
    /\ conversations[resp.cid].nextMessageId > 1

\* C26, as stated: a Block request for a pair that has an entry already
\* completes without error and leaves the registry as it was.
C26_BlockIdempotent ==
    (resp.op = "Block" /\ resp.existed) => (resp.status = 200 /\ resp.same)

\* C26, as the handler has it: a Block request for a pair that has an entry already is
\* answered 400 'User is already blocked' and leaves the registry as it was.
C26_RepeatedBlockRefused ==
    (resp.op = "Block" /\ resp.existed)
    => (resp.status = 400 /\ resp.value = 1 /\ resp.same)

\* user 1 asks twice to block user 2
C26_Witness ==
    /\ resp.op = "Block" /\ resp.existed /\ resp.status = 400
    /\ resp.user = 1 /\ resp.userId = 2
    /\ blockList[<<1, 2>>] = 1

----------------------------------------------------------------------------
(* Specification SpecRoundTrip: the requests of Spec, where Block records  *)
(* the registry and the conversations it found, and Unblock records        *)
(* whether it undoes the Block answered just before it                     *)

MaxTripBlocks == 2   \* documents in the BlockList collection under SpecRoundTrip

TripBlock(user, userId) ==
    LET r == Block(blockList, user, userId)
    IN  /\ BlockCount(r.blockList) <= MaxTripBlocks
        /\ blockList' = r.blockList
        /\ resp' = [op |-> "Block", status |-> r.resp.status, value |-> r.resp.value,
                    user |-> user, userId |-> userId,
                    before |-> blockList, convs |-> conversations]
        /\ UNCHANGED <<conversations, suppressed, lastAlloc, reqs, twinVars, polls, offerVars>>

\* roundTrip: the request before this one was the Block of the same user by
\* the same caller, it was answered 200, and no conversation has changed since
TripUnblock(user, userId) ==
    LET r == Unblock(blockList, user, userId)
        roundTrip == /\ resp.op = "Block"
                     /\ resp.status = 200
                     /\ resp.user = user
                     /\ resp.userId = userId
                     /\ resp.convs = conversations
    IN  /\ blockList' = r.blockList
        /\ resp' = [op |-> "Unblock", status |-> r.resp.status, value |-> r.resp.value,
                    user |-> user, userId |-> userId,
                    roundTrip |-> roundTrip,
                    before |-> IF roundTrip THEN resp.before ELSE blockList,
                    convs |-> conversations]
        /\ UNCHANGED <<conversations, suppressed, lastAlloc, reqs, twinVars, polls, offerVars>>

NextRoundTrip ==
    \/ \E u \in Users, p \in Users \cup {NoUser} : CallGetOrCreate(u, p, MaxConvs)
    \/ \E u \in Users, c \in ConvIds, t \in Texts : CallPostMessage(u, c, t)
    \/ \E u \in Users, c \in ConvIds, p \in {0, 1} : CallProductReply(u, c, p)
    \/ \E u \in Users, t \in Users : TripBlock(u, t)
    \/ \E u \in Users, t \in Users : TripUnblock(u, t)

SpecRoundTrip == Init /\ [][NextRoundTrip]_vars

\* the Unblock answered last undid a Block, with no message in between
TripDone == resp.op = "Unblock" /\ resp.roundTrip

\* conversations of the unblocked user (resp.userId) with the caller (resp.user)
TripConvs ==
    {c \in 1..Len(conversations) :
        Range(conversations[c].participants) = {resp.user, resp.userId}}

\* first message id allocated in conversation c after the Unblock
TripBase(c) == IF c \in 1..Len(resp.convs) THEN resp.convs[c].nextMessageId ELSE 1

\* the registry and what both users fetch are as before the Block
TripRestores ==
    /\ resp.status = 200
    /\ blockList = resp.before
    /\ \A u \in {resp.user, resp.userId}, c \in ConvIds, l \in LastIds :
        FetchMessages(conversations, blockList, u, c, l)
            = FetchMessages(conversations, resp.before, u, c, l)

\* every message the unblocked user has posted since the Unblock is stored
TripPostsStored ==
    \A s \in suppressed :
        ~(s[1] \in TripConvs /\ s[3] = resp.userId /\ s[2] >= TripBase(s[1]))

\* the messages of the unblocked user stored in c since the Unblock
TripPosts(c) ==
    {k \in 1..Len(conversations[c].messages) :
        /\ conversations[c].messages[k].sender = resp.userId
        /\ conversations[c].messages[k].messageId >= TripBase(c)}

\* the caller's fetch of c returns message k of c
TripVisible(c, k) ==
    \E j \in 1..Len(FetchMessages(conversations, blockList, resp.user, c, NoId).messages) :
        FetchMessages(conversations, blockList, resp.user, c, NoId).messages[j]
            = conversations[c].messages[k]

\* C39, as stated: when B blocks A and then unblocks A with no message in
\* between, the block registry and what A and B fetch are as before the
\* Block, and every message A posts afterwards is stored and is returned by
\* B's fetch.
C39_BlockUnblockRoundTrip ==
    TripDone =>
        /\ TripRestores
        /\ TripPostsStored
        /\ \A c \in TripConvs : \A k \in TripPosts(c) : TripVisible(c, k)

\* C39, as the handlers have it: the same, where B's fetch returns the
\* messages A posts afterwards unless A holds a block entry against B.
C39_RoundTripUnlessSenderBlocks ==
    TripDone =>
        /\ TripRestores
        /\ TripPostsStored
        /\ \A c \in TripConvs : \A k \in TripPosts(c) :
            BlockExists(blockList, resp.userId, resp.user) \/ TripVisible(c, k)

\* B blocked A and unblocked A, A has posted since, the message is stored
\* and B's fetch returns it
C39_Witness ==
    /\ TripDone
    /\ resp.status = 200
    /\ \E c \in TripConvs : \E k \in TripPosts(c) :
        /\ conversations[c].messages[k].type = "message"
        /\ TripVisible(c, k)

----------------------------------------------------------------------------
(* Specification SpecSeed: the requests of Spec, where POST / may carry a  *)
(* productPreview and a firstMessage (routes/conversations.js) and leaves  *)
(* in resp its response together with the request                          *)

\* the message subdocument schema: sender and text are required, type is
\* one of 'message', 'product'
MessageValid(message) ==
    /\ message.sender # NoUser
    /\ message.text # ""
    /\ message.type \in {"message", "product"}

\* productReplyMessage: no sender, no text; messageId by default
ProductReplyMessage ==
    [messageId |-> 1, sender |-> NoUser, text |-> "", type |-> "product_reply"]

\* userMessage: messageId and type by default
UserMessage(user, firstMessage) ==
    [messageId |-> 1, sender |-> user, text |-> firstMessage, type |-> "message"]

\* POST / with productPreview (present or not) and firstMessage
GetOrCreateSeeded(convs, user, participantId, productPreview, firstMessage) ==
    IF participantId = NoUser
    THEN [conversations |-> convs,
          resp |-> Response("GetOrCreate", user, participantId, 400, 0)]
    ELSE LET participants == SortPair(user, participantId)
             found == FindConversation(convs, participants)
             doc == [NewConversation(participants) EXCEPT
                        !.messages = IF productPreview /\ firstMessage # ""
                                     THEN <<ProductReplyMessage, UserMessage(user, firstMessage)>>
                                     ELSE <<>>]
         IN  IF found # 0
             THEN [conversations |-> convs,
                   resp |-> Response("GetOrCreate", user, participantId, 200, found)]
             ELSE IF /\ ParticipantsValid(participants)
                     /\ \A k \in 1..Len(doc.messages) : MessageValid(doc.messages[k])
             THEN [conversations |-> Append(convs, doc),
                   resp |-> Response("GetOrCreate", user, participantId, 200, Len(convs) + 1)]
             ELSE [conversations |-> convs,
                   resp |-> Response("GetOrCreate", user, participantId, 500, 0)]

ObserveGetOrCreateSeeded(user, participantId, productPreview, firstMessage) ==
    LET r == GetOrCreateSeeded(conversations, user, participantId, productPreview, firstMessage)
    IN  /\ Len(r.conversations) <= MaxConvs
        /\ conversations' = r.conversations
        /\ resp' = r.resp @@
                   [user |-> user, participantId |-> participantId,
                    firstMessage |-> firstMessage,
                    seeded |-> participantId # NoUser /\ productPreview /\ firstMessage # "",
                    existed |-> /\ participantId # NoUser
                                /\ FindConversation(conversations,
                                                    SortPair(user, participantId)) # 0,
                    before |-> conversations]
        /\ UNCHANGED <<blockList, suppressed, lastAlloc, reqs, twinVars, polls, offerVars>>

NextSeed ==
    \/ \E u \in Users, p \in Users \cup {NoUser}, v \in BOOLEAN, t \in Texts :
            ObserveGetOrCreateSeeded(u, p, v, t)
    \/ \E u \in Users, c \in ConvIds, t \in Texts : CallPostMessage(u, c, t)
    \/ \E u \in Users, c \in ConvIds, p \in {0, 1} : CallProductReply(u, c, p)
    \/ \E u \in Users, t \in Users : CallBlock(u, t)
    \/ \E u \in Users, t \in Users : CallUnblock(u, t)

SpecSeed == Init /\ [][NextSeed]_vars

\* C28: GetOrCreate with a product preview and a first message succeeds;
\* when the pair had no conversation it creates one that holds exactly two
\* messages, a product message and then the caller's text message; when the
\* pair had a conversation, the stored conversations are as before.
C28_SeededCreate ==
    (resp.op = "GetOrCreate" /\ resp.seeded)
    => /\ resp.status = 200
       /\ resp.value \in 1..Len(conversations)
       /\ ~resp.existed
            => LET ms == conversations[resp.value].messages
               IN  /\ Len(ms) = 2
                   /\ ms[1].type = "product"
                   /\ ms[2].type = "message"
                   /\ ms[2].sender = resp.user
                   /\ ms[2].text = resp.firstMessage
       /\ resp.existed => conversations = resp.before

----------------------------------------------------------------------------
(* Specification SpecPoll: the requests of Spec, and clients that poll     *)
(* GET /:conversationId/messages with lastId set to the highest messageId  *)
(* they have received (no lastId before the first message).                *)

PollUsers == {1, 2}
NoPoll == [cursor |-> NoId, received |-> {}, missed |-> {}, twice |-> FALSE]

InitPoll ==
    /\ InitConv
    /\ resp = NoResponse
    /\ reqs = <<>>
    /\ IdleTwin
    /\ IdleOffers
    /\ polls = [k \in PollUsers \X (1..MaxConvs) |-> NoPoll]

IdsOf(messages) == {messages[i].messageId : i \in 1..Len(messages)}

\* one poll of a client; missed: the messages the reader may see now that
\* are neither in this result nor in an earlier one; twice: a message of
\* this result was in an earlier one
Poll(reader, cid) ==
    LET client == polls[<<reader, cid>>]
        r == FetchMessages(conversations, blockList, reader, cid, client.cursor)
        got == IdsOf(r.messages)
        visible == IdsOf(FetchMessages(conversations, blockList, reader, cid, NoId).messages)
        all == client.received \cup got
    IN  /\ r.status = 200
        /\ polls' = [polls EXCEPT ![<<reader, cid>>] =
                        [cursor |-> IF all = {} THEN NoId
                                    ELSE CHOOSE x \in all : \A y \in all : y <= x,
                         received |-> all,
                         missed |-> visible \ all,
                         twice |-> client.twice \/ (got \cap client.received # {})]]
        /\ UNCHANGED <<convVars, resp, reqs, twinVars, offerVars>>

NextPoll ==
    \/ \E u \in Users, p \in Users \cup {NoUser} : CallGetOrCreate(u, p, MaxConvs)
    \/ \E u \in Users, c \in ConvIds, t \in Texts : CallPostMessage(u, c, t)
    \/ \E u \in Users, c \in ConvIds, p \in {0, 1} : CallProductReply(u, c, p)
    \/ \E u \in Users, t \in Users : CallBlock(u, t)
    \/ \E u \in Users, t \in Users : CallUnblock(u, t)
    \/ \E u \in PollUsers, c \in 1..MaxConvs : Poll(u, c)

SpecPoll == InitPoll /\ [][NextPoll]_vars

\* C19: at every poll of a client that passes the highest messageId it has
\* received as the cursor, what it has received up to and including this
\* poll contains every stored message it may see at this poll, and the
\* poll returns no message it had received before.
C19_CursorComplete ==
    \A k \in DOMAIN polls : polls[k].missed = {} /\ ~polls[k].twice

----------------------------------------------------------------------------
(* Specification SpecTwin: two executions of the same requests, side by    *)
(* side.  Every request is run on both stores; BlockInFirst gives the      *)
(* first execution one block entry that the second execution never gets.   *)
(* resp and resp2 hold the responses to the latest PostMessage.            *)

InitTwin ==
    /\ InitConv
    /\ conversations2 = <<>>
    /\ blockList2 = NoBlocks
    /\ resp = NoResponse
    /\ resp2 = NoResponse
    /\ diff = NoDiff
    /\ reqs = <<>>
    /\ IdleOffers
    /\ IdlePolls

TwinGetOrCreate(user, participantId) ==
    LET r1 == GetOrCreate(conversations, user, participantId)
        r2 == GetOrCreate(conversations2, user, participantId)
    IN  /\ Len(r1.conversations) <= MaxConvs
        /\ conversations' = r1.conversations
        /\ conversations2' = r2.conversations
        /\ UNCHANGED <<resp, resp2, blockList, blockList2, diff, suppressed, lastAlloc, reqs, offerVars, polls>>

TwinPostMessage(user, cid, text) ==
    LET r1 == PostMessage(conversations, blockList, user, cid, text)
        r2 == PostMessage(conversations2, blockList2, user, cid, text)
    IN  /\ AllocCount(r1.conversations) <= MaxMsgs
        /\ AllocCount(r2.conversations) <= MaxMsgs
        /\ conversations' = r1.conversations /\ resp' = r1.resp
        /\ conversations2' = r2.conversations /\ resp2' = r2.resp
        /\ suppressed' = IF r1.blocked THEN suppressed \cup {<<cid, r1.resp.value, user>>}
                         ELSE suppressed
        /\ UNCHANGED <<blockList, blockList2, diff, lastAlloc, reqs, offerVars, polls>>

TwinProductReply(user, cid, productId) ==
    LET r1 == ProductReply(conversations, user, cid, productId)
        r2 == ProductReply(conversations2, user, cid, productId)
    IN  /\ AllocCount(r1.conversations) <= MaxMsgs
        /\ AllocCount(r2.conversations) <= MaxMsgs
        /\ conversations' = r1.conversations
        /\ conversations2' = r2.conversations
        /\ UNCHANGED <<resp, resp2, blockList, blockList2, diff, suppressed, lastAlloc, reqs, offerVars, polls>>

TwinBlock(user, userId) ==
    LET r1 == Block(blockList, user, userId)
        r2 == Block(blockList2, user, userId)
    IN  /\ BlockCount(r1.blockList) <= MaxBlocks
        /\ blockList' = r1.blockList
        /\ blockList2' = r2.blockList
        /\ UNCHANGED <<resp, resp2, conversations, conversations2, diff, suppressed, lastAlloc, reqs, offerVars, polls>>

TwinUnblock(user, userId) ==
    LET r1 == Unblock(blockList, user, userId)
        r2 == Unblock(blockList2, user, userId)
    IN  /\ blockList' = r1.blockList
        /\ blockList2' = r2.blockList
        /\ UNCHANGED <<resp, resp2, conversations, conversations2, diff, suppressed, lastAlloc, reqs, offerVars, polls>>

\* the block request that only the first execution receives
BlockInFirst(user, userId) ==
    LET r1 == Block(blockList, user, userId)
    IN  /\ diff = NoDiff
        /\ r1.resp.status = 200
        /\ BlockCount(r1.blockList) <= MaxBlocks
        /\ blockList' = r1.blockList
        /\ diff' = <<user, userId>>
        /\ UNCHANGED <<conversations, conversations2, blockList2, resp, resp2,
                       suppressed, lastAlloc, reqs, offerVars, polls>>

\* the two parties of the conversation under observation
TwinUsers == {1, 2}

NextTwin ==
    \/ \E u \in TwinUsers, p \in TwinUsers \cup {NoUser} : TwinGetOrCreate(u, p)
    \/ \E u \in TwinUsers, c \in ConvIds, t \in Texts : TwinPostMessage(u, c, t)
    \/ \E u \in TwinUsers, c \in ConvIds, p \in {0, 1} : TwinProductReply(u, c, p)
    \/ \E u \in TwinUsers, t \in TwinUsers : TwinBlock(u, t)
    \/ \E u \in TwinUsers, t \in TwinUsers : TwinUnblock(u, t)
    \/ \E u \in TwinUsers, t \in TwinUsers : BlockInFirst(u, t)

SpecTwin == InitTwin /\ [][NextTwin]_vars

\* C5: the two executions differ in one block entry only, and every
\* PostMessage gets the same response (status and allocated messageId) in both.
C5_PostResponseIndependentOfBlock ==
    resp.op = "PostMessage" => resp = resp2

\* the blocked sender has posted: accepted in both executions, stored in the second only
C5_Witness ==
    /\ diff # NoDiff
    /\ resp.op = "PostMessage" /\ resp.status = 200
    /\ \E c \in 1..Len(conversations) :
          /\ <<c, resp.value, diff[2]>> \in suppressed
          /\ Len(conversations[c].messages) < Len(conversations2[c].messages)

\* C6: what the blocked party A observes (its PostMessage responses and its
\* FetchMessages results, with any cursor) is the same in both executions.
C6_BlockNotLeaked ==
    diff # NoDiff =>
        LET a == diff[2]
        IN  /\ \A c \in ConvIds, l \in LastIds :
                  FetchMessages(conversations, blockList, a, c, l)
                      = FetchMessages(conversations2, blockList2, a, c, l)
            /\ \A c \in ConvIds, t \in Texts :
                  PostMessage(conversations, blockList, a, c, t).resp
                      = PostMessage(conversations2, blockList2, a, c, t).resp

----------------------------------------------------------------------------
(* Specification SpecPairs: conversation creation, one request at a time,  *)
(* by any user for any user                                                *)

MaxPairConvs == 3    \* conversations that may be created under SpecPairs

NextPairs ==
    \/ \E u \in Users, p \in Users \cup {NoUser} : CallGetOrCreate(u, p, MaxPairConvs)
    \/ \E u \in Users, t \in Users : CallBlock(u, t)
    \/ \E u \in Users, t \in Users : CallUnblock(u, t)

SpecPairs == Init /\ [][NextPairs]_vars

\* the unordered participant pair of a conversation
PairOf(doc) == Range(doc.participants)

\* C7: every conversation has exactly two participants, no two conversations
\* have the same unordered pair, and GetOrCreate by A for B followed by
\* GetOrCreate by B for A returns the same conversation id (the conversation
\* of A and B) and creates nothing.
C7_OneConversationPerPair ==
    /\ \A i \in 1..Len(conversations) : Len(conversations[i].participants) = 2
    /\ \A i, j \in 1..Len(conversations) :
          i # j => PairOf(conversations[i]) # PairOf(conversations[j])
    /\ \A a, b \in Users :
          LET r1 == GetOrCreate(conversations, a, b)
              r2 == GetOrCreate(r1.conversations, b, a)
          IN  /\ r1.resp.status = 200 /\ r2.resp.status = 200
              /\ r2.resp.value = r1.resp.value
              /\ r2.conversations = r1.conversations
              /\ a # b => PairOf(r1.conversations[r1.resp.value]) = {a, b}

\* three conversations exist, for three different pairs
C7_Witness ==
    /\ Len(conversations) = 3
    /\ \E a, b \in Users :
          /\ a # b
          /\ GetOrCreate(conversations, a, b).resp.value = 2
          /\ GetOrCreate(conversations, b, a).resp.value = 2

----------------------------------------------------------------------------
(* Specification SpecRace: GetOrCreate and PostMessage requests that may   *)
(* overlap.  A handler gives way to other requests at each await:          *)
(*   GetOrCreate:  findOne | save (insert) | response                      *)
(*   PostMessage:  findById | BlockList.findOne | save | response          *)

MaxReqs == 3         \* requests that may be started
Slots == {1, 2}      \* requests that may be in flight together
RaceUsers == {1, 2}

NoDoc == [participants |-> <<>>, messages |-> <<>>, nextMessageId |-> 0]
IdleReq == [op |-> "none", pc |-> "idle", id |-> 0, with |-> {}, user |-> NoUser, arg |-> 0,
            text |-> "", doc |-> NoDoc, blockExists |-> FALSE, resp |-> NoResponse]

InitRace ==
    /\ InitConv
    /\ resp = NoResponse
    /\ reqs = [started |-> 0, at |-> [s \in Slots |-> IdleReq]]
    /\ IdleTwin
    /\ IdleOffers
    /\ IdlePolls

\* the requests in flight
InFlight == {reqs.at[s].id : s \in {x \in Slots : reqs.at[x].pc \notin {"idle", "done"}}}

Finish(s, response) ==
    reqs' = [reqs EXCEPT !.at[s].pc = "done", !.at[s].resp = response]

\* a request arrives: the synchronous prefix of the handler
StartGetOrCreate(s, user, participantId) ==
    /\ reqs.at[s].pc \in {"idle", "done"}
    /\ reqs.started < MaxReqs
    /\ reqs' = [reqs EXCEPT
            !.started = @ + 1,
            !.at[s] = [IdleReq EXCEPT
                !.op = "GetOrCreate", !.id = reqs.started + 1, !.with = InFlight,
                !.user = user, !.arg = participantId,
                !.pc = IF participantId = NoUser THEN "done" ELSE "find",
                !.resp = IF participantId = NoUser
                         THEN Response("GetOrCreate", user, participantId, 400, 0)
                         ELSE NoResponse]]
    /\ UNCHANGED <<convVars, resp, twinVars, polls, offerVars>>

\* await Conversation.findOne(...)
GetOrCreateFind(s) ==
    LET r == reqs.at[s]
        found == FindConversation(conversations, SortPair(r.user, r.arg))
    IN  /\ r.op = "GetOrCreate" /\ r.pc = "find"
        /\ IF found # 0
           THEN Finish(s, Response("GetOrCreate", r.user, r.arg, 200, found))
           ELSE reqs' = [reqs EXCEPT !.at[s].pc = "insert"]
        /\ UNCHANGED <<convVars, resp, twinVars, polls, offerVars>>

\* await conversation.save() of the new document
GetOrCreateInsert(s) ==
    LET r == reqs.at[s]
        participants == SortPair(r.user, r.arg)
    IN  /\ r.op = "GetOrCreate" /\ r.pc = "insert"
        /\ IF ParticipantsValid(participants)
           THEN /\ conversations' = Append(conversations, NewConversation(participants))
                /\ Finish(s, Response("GetOrCreate", r.user, r.arg, 200, Len(conversations) + 1))
           ELSE /\ UNCHANGED conversations
                /\ Finish(s, Response("GetOrCreate", r.user, r.arg, 500, 0))
        /\ UNCHANGED <<blockList, suppressed, lastAlloc, resp, twinVars, polls, offerVars>>

StartPostMessage(s, user, cid, text) ==
    /\ reqs.at[s].pc \in {"idle", "done"}
    /\ reqs.started < MaxReqs
    /\ reqs' = [reqs EXCEPT
            !.started = @ + 1,
            !.at[s] = [IdleReq EXCEPT
                !.op = "PostMessage", !.id = reqs.started + 1, !.with = InFlight,
                !.user = user, !.arg = cid, !.text = text,
                !.pc = IF text = "" THEN "done" ELSE "load",
                !.resp = IF text = "" THEN Response("PostMessage", user, cid, 400, 0)
                         ELSE NoResponse]]
    /\ UNCHANGED <<convVars, resp, twinVars, polls, offerVars>>

\* await Conversation.findById(...), then the participant test
PostMessageLoad(s) ==
    LET r == reqs.at[s]
    IN  /\ r.op = "PostMessage" /\ r.pc = "load"
        /\ IF r.arg \notin 1..Len(conversations)
           THEN Finish(s, Response("PostMessage", r.user, r.arg, 404, 0))
           ELSE IF ~IsParticipant(conversations[r.arg], r.user)
           THEN Finish(s, Response("PostMessage", r.user, r.arg, 403, 0))
           ELSE reqs' = [reqs EXCEPT !.at[s].pc = "check", !.at[s].doc = conversations[r.arg]]
        /\ UNCHANGED <<convVars, resp, twinVars, polls, offerVars>>

\* await BlockList.findOne(...)
PostMessageCheck(s) ==
    LET r == reqs.at[s]
    IN  /\ r.op = "PostMessage" /\ r.pc = "check"
        /\ reqs' = [reqs EXCEPT !.at[s].pc = "save",
                                !.at[s].blockExists =
                                    BlockExists(blockList, OtherUserId(r.doc, r.user), r.user)]
        /\ UNCHANGED <<convVars, resp, twinVars, polls, offerVars>>

\* await conversation.save(), then the response
PostMessageSave(s) ==
    LET r == reqs.at[s]
        delta == PostMessageDelta(r.doc, r.blockExists, r.user, r.text)
    IN  /\ r.op = "PostMessage" /\ r.pc = "save"
        /\ conversations' = SaveConversation(conversations, r.arg, delta)
        /\ Finish(s, Response("PostMessage", r.user, r.arg, 200, delta.messageId))
        /\ UNCHANGED <<blockList, suppressed, lastAlloc, resp, twinVars, polls, offerVars>>

NextRace ==
    \/ \E s \in Slots, u \in RaceUsers, p \in RaceUsers \cup {NoUser} : StartGetOrCreate(s, u, p)
    \/ \E s \in Slots : GetOrCreateFind(s)
    \/ \E s \in Slots : GetOrCreateInsert(s)
    \/ \E s \in Slots, u \in RaceUsers, c \in ConvIds, t \in Texts : StartPostMessage(s, u, c, t)
    \/ \E s \in Slots : PostMessageLoad(s)
    \/ \E s \in Slots : PostMessageCheck(s)
    \/ \E s \in Slots : PostMessageSave(s)
    \/ \E u \in RaceUsers, t \in RaceUsers : CallBlock(u, t)
    \/ \E u \in RaceUsers, t \in RaceUsers : CallUnblock(u, t)

SpecRace == InitRace /\ [][NextRace]_vars

\* two completed requests that were in flight together
Overlapped(s, t) ==
    /\ s # t
    /\ reqs.at[s].pc = "done" /\ reqs.at[t].pc = "done"
    /\ reqs.at[s].resp.status = 200 /\ reqs.at[t].resp.status = 200
    /\ reqs.at[s].id \in reqs.at[t].with \/ reqs.at[t].id \in reqs.at[s].with

StoredIn(c, id, sender) ==
    \E m \in Range(conversations[c].messages) : m.messageId = id /\ m.sender = sender

\* C2: two PostMessage requests on one conversation that overlapped return
\* different messageIds, leave nextMessageId two above what the earlier of
\* them read, and both messages are stored unless a block suppressed them.
C2_OverlappingPostsDistinct ==
    \A s, t \in Slots :
        LET a == reqs.at[s]
            b == reqs.at[t]
        IN  (/\ Overlapped(s, t)
             /\ a.op = "PostMessage" /\ b.op = "PostMessage" /\ a.arg = b.arg)
            => /\ a.resp.value # b.resp.value
               /\ conversations[a.arg].nextMessageId
                     >= Min({a.doc.nextMessageId, b.doc.nextMessageId}) + 2
               /\ ~a.blockExists => StoredIn(a.arg, a.resp.value, a.user)
               /\ ~b.blockExists => StoredIn(b.arg, b.resp.value, b.user)

\* C8: two GetOrCreate requests for the same pair that overlapped return the
\* same conversation id, and exactly one conversation exists for the pair.
C8_OverlappingGetOrCreateSame ==
    \A s, t \in Slots :
        LET a == reqs.at[s]
            b == reqs.at[t]
        IN  (/\ Overlapped(s, t)
             /\ a.op = "GetOrCreate" /\ b.op = "GetOrCreate"
             /\ SortPair(a.user, a.arg) = SortPair(b.user, b.arg))
            => /\ a.resp.value = b.resp.value
               /\ Cardinality({i \in 1..Len(conversations) :
                       conversations[i].participants = SortPair(a.user, a.arg)}) = 1

\* C20: the stored messages of a conversation have pairwise distinct
\* messageIds, each smaller than the conversation's nextMessageId.
C20_StoredIdsDistinct ==
    \A c \in 1..Len(conversations) :
        LET doc == conversations[c]
        IN  /\ \A i, j \in 1..Len(doc.messages) :
                  i # j => doc.messages[i].messageId # doc.messages[j].messageId
            /\ \A i \in 1..Len(doc.messages) : doc.messages[i].messageId < doc.nextMessageId

----------------------------------------------------------------------------
(* Specification SpecBlockRace: Block requests that may overlap, cut at    *)
(* their awaits, the report action 'blockUser' of the admin routes, and    *)
(* Unblock.  The BlockList model (models/blockList.js) keeps at most one   *)
(* document per (blocker, blocked): a save of a second one is refused.     *)

MaxBlockReqs == 4     \* Block requests and report actions that may be started

\* faulty variant: the collection takes a second document for the pair
BlockListSave_NoIndex(blocks, blocker, blocked) ==
    [blockList |-> [blocks EXCEPT ![<<blocker, blocked>>] = @ + 1], ok |-> TRUE]

\* new BlockList({blocker, blocked}).save(): ok is FALSE when the save throws
BlockListSave(blocks, blocker, blocked) ==
    IF blocks[<<blocker, blocked>>] > 0
    THEN [blockList |-> blocks, ok |-> FALSE]
    ELSE [blockList |-> [blocks EXCEPT ![<<blocker, blocked>>] = @ + 1], ok |-> TRUE]

StartBlock(s, user, userId) ==
    /\ reqs.at[s].pc \in {"idle", "done"}
    /\ reqs.started < MaxBlockReqs
    /\ reqs' = [reqs EXCEPT
            !.started = @ + 1,
            !.at[s] = [IdleReq EXCEPT
                !.op = "Block", !.id = reqs.started + 1, !.with = InFlight,
                !.user = user, !.arg = userId,
                !.pc = IF user = userId THEN "done" ELSE "find",
                !.resp = IF user = userId THEN Response("Block", user, userId, 400, 0)
                         ELSE NoResponse]]
    /\ UNCHANGED <<convVars, resp, twinVars, polls, offerVars>>

\* await BlockList.findOne({blocker, blocked})
BlockFind(s) ==
    LET r == reqs.at[s]
    IN  /\ r.op = "Block" /\ r.pc = "find"
        /\ IF BlockExists(blockList, r.user, r.arg)
           THEN Finish(s, Response("Block", r.user, r.arg, 400, 1))
           ELSE reqs' = [reqs EXCEPT !.at[s].pc = "insert"]
        /\ UNCHANGED <<convVars, resp, twinVars, polls, offerVars>>

\* await blockList.save()
BlockInsert(s) ==
    LET r == reqs.at[s]
        saved == BlockListSave(blockList, r.user, r.arg)
    IN  /\ r.op = "Block" /\ r.pc = "insert"
        /\ blockList' = saved.blockList
        /\ Finish(s, Response("Block", r.user, r.arg, IF saved.ok THEN 200 ELSE 500, 0))
        /\ UNCHANGED <<conversations, suppressed, lastAlloc, resp, twinVars, polls, offerVars>>

\* PATCH /reports/:id with action 'blockUser', for a report of reportedUser
\* by reporter
AdminBlockUser(reporter, reportedUser) ==
    LET saved == BlockListSave(blockList, reporter, reportedUser)
    IN  /\ reqs.started < MaxBlockReqs
        /\ reqs' = [reqs EXCEPT !.started = @ + 1]
        /\ blockList' = saved.blockList
        /\ resp' = [op |-> "AdminBlockUser", status |-> IF saved.ok THEN 200 ELSE 500,
                    value |-> 0, reporter |-> reporter, reportedUser |-> reportedUser]
        /\ UNCHANGED <<conversations, suppressed, lastAlloc, twinVars, polls, offerVars>>

NextBlockRace ==
    \/ \E s \in Slots, u \in RaceUsers, t \in RaceUsers : StartBlock(s, u, t)
    \/ \E s \in Slots : BlockFind(s)
    \/ \E s \in Slots : BlockInsert(s)
    \/ \E u \in RaceUsers, t \in RaceUsers : AdminBlockUser(u, t)
    \/ \E u \in RaceUsers, t \in RaceUsers : CallUnblock(u, t)

SpecBlockRace == InitRace /\ [][NextBlockRace]_vars

\* C27: the registry holds at most one entry per ordered pair (blocker,
\* blocked), also after two overlapping Block requests for one pair and
\* after the report action 'blockUser' for a pair that has an entry.
C27_OneEntryPerPair ==
    \A p \in Users \X Users : blockList[p] <= 1

\* two Block requests for one pair were in flight together and both found no
\* entry, one of them saved; then the report action named the same pair
C27_Witness ==
    /\ \E s, t \in Slots :
          /\ s # t
          /\ reqs.at[s].op = "Block" /\ reqs.at[t].op = "Block"
          /\ reqs.at[s].pc = "done" /\ reqs.at[t].pc = "done"
          /\ reqs.at[s].user = reqs.at[t].user /\ reqs.at[s].arg = reqs.at[t].arg
          /\ reqs.at[s].id \in reqs.at[t].with
          /\ reqs.at[s].resp.status = 200 /\ reqs.at[t].resp.status = 500
          /\ resp.op = "AdminBlockUser" /\ resp.status = 500
          /\ resp.reporter = reqs.at[s].user /\ resp.reportedUser = reqs.at[s].arg
          /\ blockList[<<reqs.at[s].user, reqs.at[s].arg>>] = 1

----------------------------------------------------------------------------
(* Specification SpecImmutable: the requests of SpecRace, GetOrCreate and  *)
(* PostMessage cut at their awaits, together with product replies         *)

\* a product reply, start to response, counted among the requests started
RaceProductReply(user, cid, productId) ==
    LET r == ProductReply(conversations, user, cid, productId)
    IN  /\ reqs.started < MaxReqs
        /\ reqs' = [reqs EXCEPT !.started = @ + 1]
        /\ conversations' = r.conversations
        /\ UNCHANGED <<blockList, suppressed, lastAlloc, resp, twinVars, polls, offerVars>>

NextImmutable ==
    \/ NextRace
    \/ \E u \in RaceUsers, c \in ConvIds, p \in {0, 1} : RaceProductReply(u, c, p)

SpecImmutable == InitRace /\ [][NextImmutable]_vars

\* C31: a stored message stays in its conversation, at its place, with the
\* same messageId, sender, text and type, through every step of every
\* request, PostMessage requests that overlap on the conversation included.
C31_StoredMessagesImmutable ==
    [][\A c \in 1..Len(conversations) :
          /\ c <= Len(conversations')
          /\ \A i \in 1..Len(conversations[c].messages) :
                /\ i <= Len(conversations'[c].messages)
                /\ conversations'[c].messages[i] = conversations[c].messages[i]]_vars

\* two PostMessage requests on one conversation were in flight together and
\* both messages are stored
C31_Witness ==
    \E s, t \in Slots :
        /\ Overlapped(s, t)
        /\ reqs.at[s].op = "PostMessage" /\ reqs.at[t].op = "PostMessage"
        /\ reqs.at[s].arg = reqs.at[t].arg
        /\ Len(conversations[reqs.at[s].arg].messages) >= 2

----------------------------------------------------------------------------
(* Product offers: routes/products.js, and the Notification model.  Of a   *)
(* product the model keeps the seller, price, status, buyer, the           *)
(* transaction date (set or not) and the offerRequests subdocuments;       *)
(* name, description and images are left out.                              *)

MaxProducts == 1     \* products that may be created
MaxOffers == 2       \* offer subdocuments that may be created
MaxNotifs == 3       \* notifications that may be stored

Prices == {-5, 0, 500}          \* 0: offerPrice / price absent from the body
ListPrices == {0, 100}
ProductIds == 1..(MaxProducts + 1)
OfferIds == 1..MaxOffers

\* new Product(productData): the schema defaults
NewProduct(seller, price) ==
    [seller |-> seller, price |-> price, status |-> "available", buyer |-> NoUser,
     transactionDate |-> FALSE, offerRequests |-> <<>>]

\* faulty variant: one counter for all recipients
NextNotificationId_Global(notifs, userId) == Len(notifs) + 1

\* notificationSchema.pre('save'): last id of this recipient plus one
NextNotificationId(notifs, userId) ==
    LET mine == {notifs[i].notificationId : i \in {j \in 1..Len(notifs) : notifs[j].userId = userId}}
    IN  IF mine = {} THEN 1
        ELSE (CHOOSE x \in mine : \A y \in mine : y <= x) + 1

\* Notification.create({userId, type, productId})
CreateNotification(notifs, userId, type, productId) ==
    Append(notifs, [notificationId |-> NextNotificationId(notifs, userId), userId |-> userId,
                    type |-> type, productId |-> productId, read |-> FALSE])

\* product.offerRequests.id(offerId): the subdocument or none
OfferById(product, offerId) ==
    {product.offerRequests[i] : i \in {j \in 1..Len(product.offerRequests) :
                                          product.offerRequests[j].id = offerId}}

\* Array.prototype.filter
RECURSIVE FilterOffers(_, _, _)
FilterOffers(offers, field, value) ==
    IF offers = <<>> THEN <<>>
    ELSE IF Head(offers)[field] = value THEN FilterOffers(Tail(offers), field, value)
    ELSE <<Head(offers)>> \o FilterOffers(Tail(offers), field, value)

\* POST /products
CreateProduct(prods, user, price) ==
    IF price = 0
    THEN [products |-> prods, resp |-> Response("CreateProduct", user, 0, 400, 0)]
    ELSE [products |-> Append(prods, NewProduct(user, price)),
          resp |-> Response("CreateProduct", user, 0, 201, Len(prods) + 1)]

\* POST /products/:productId/offers.  notifOk: Notification.create succeeds
MakeOffer(prods, notifs, nextId, user, productId, offerPrice, notifOk) ==
    LET same == [products |-> prods, notifications |-> notifs, nextOfferId |-> nextId]
    IN  IF offerPrice = 0
        THEN same @@ [resp |-> Response("MakeOffer", user, productId, 400, 0)]
        ELSE IF productId \notin 1..Len(prods)
        THEN same @@ [resp |-> Response("MakeOffer", user, productId, 404, 0)]
        ELSE
            LET product == prods[productId]
                offers == Append(FilterOffers(product.offerRequests, "buyer", user),
                                 [id |-> nextId, buyer |-> user, offerPrice |-> offerPrice])
                saved == [prods EXCEPT ![productId].offerRequests = offers]
            IN  IF notifOk
                THEN [products |-> saved,
                      notifications |-> CreateNotification(notifs, product.seller,
                                                           "offer_received", productId),
                      nextOfferId |-> nextId + 1,
                      resp |-> Response("MakeOffer", user, productId, 200, nextId)]
                ELSE [products |-> saved, notifications |-> notifs, nextOfferId |-> nextId + 1,
                      resp |-> Response("MakeOffer", user, productId, 500, 0)]

\* POST /products/offers/:offerId/accept
AcceptOffer(prods, notifs, user, productId, offerId, notifOk) ==
    IF productId \notin 1..Len(prods)
    THEN [products |-> prods, notifications |-> notifs,
          resp |-> Response("AcceptOffer", user, productId, 404, 0)]
    ELSE
        LET product == prods[productId]
            found == OfferById(product, offerId)
        IN  IF found = {}
            THEN [products |-> prods, notifications |-> notifs,
                  resp |-> Response("AcceptOffer", user, productId, 200, productId)]
            ELSE
                LET offer == CHOOSE o \in found : TRUE
                IN  IF ~notifOk
                    THEN [products |-> prods, notifications |-> notifs,
                          resp |-> Response("AcceptOffer", user, productId, 500, 0)]
                    ELSE [products |-> [prods EXCEPT ![productId] =
                                [@ EXCEPT !.status = "sold", !.buyer = offer.buyer,
                                          !.transactionDate = TRUE, !.offerRequests = <<>>]],
                          notifications |-> CreateNotification(notifs, offer.buyer,
                                                               "offer_accepted", productId),
                          resp |-> Response("AcceptOffer", user, productId, 200, productId)]

\* faulty variant: declining one offer drops every offer of the product
DeclineOffer_ClearAll(prods, notifs, user, productId, offerId, notifOk) ==
    IF productId \notin 1..Len(prods)
    THEN [products |-> prods, notifications |-> notifs,
          resp |-> Response("DeclineOffer", user, productId, 404, 0)]
    ELSE
        LET product == prods[productId]
            found == OfferById(product, offerId)
            saved == [prods EXCEPT ![productId].offerRequests = <<>>]
        IN  IF found = {}
            THEN [products |-> saved, notifications |-> notifs,
                  resp |-> Response("DeclineOffer", user, productId, 200, productId)]
            ELSE IF ~notifOk
            THEN [products |-> prods, notifications |-> notifs,
                  resp |-> Response("DeclineOffer", user, productId, 500, 0)]
            ELSE [products |-> saved,
                  notifications |-> CreateNotification(notifs,
                                        (CHOOSE o \in found : TRUE).buyer,
                                        "offer_rejected", productId),
                  resp |-> Response("DeclineOffer", user, productId, 200, productId)]

\* POST /products/offers/:offerId/decline
DeclineOffer(prods, notifs, user, productId, offerId, notifOk) ==
    IF productId \notin 1..Len(prods)
    THEN [products |-> prods, notifications |-> notifs,
          resp |-> Response("DeclineOffer", user, productId, 404, 0)]
    ELSE
        LET product == prods[productId]
            found == OfferById(product, offerId)
            saved == [prods EXCEPT ![productId].offerRequests = FilterOffers(@, "id", offerId)]
        IN  IF found = {}
            THEN [products |-> saved, notifications |-> notifs,
                  resp |-> Response("DeclineOffer", user, productId, 200, productId)]
            ELSE IF ~notifOk
            THEN [products |-> prods, notifications |-> notifs,
                  resp |-> Response("DeclineOffer", user, productId, 500, 0)]
            ELSE [products |-> saved,
                  notifications |-> CreateNotification(notifs,
                                        (CHOOSE o \in found : TRUE).buyer,
                                        "offer_rejected", productId),
                  resp |-> Response("DeclineOffer", user, productId, 200, productId)]

\* POST /api/offers: the buyer's offer is updated in place, or pushed
ApiOffers(prods, nextId, user, productId, offerPrice) ==
    IF productId \notin 1..Len(prods)
    THEN [products |-> prods, nextOfferId |-> nextId,
          resp |-> Response("ApiOffers", user, productId, 404, 0)]
    ELSE
        LET offers == prods[productId].offerRequests
            mine == {i \in 1..Len(offers) : offers[i].buyer = user}
        IN  IF mine # {}
            THEN [products |-> [prods EXCEPT ![productId].offerRequests[Min(mine)].offerPrice = offerPrice],
                  nextOfferId |-> nextId,
                  resp |-> Response("ApiOffers", user, productId, 200, offerPrice)]
            ELSE [products |-> [prods EXCEPT ![productId].offerRequests =
                        Append(@, [id |-> nextId, buyer |-> user, offerPrice |-> offerPrice])],
                  nextOfferId |-> nextId + 1,
                  resp |-> Response("ApiOffers", user, productId, 200, offerPrice)]

\* GET /products/:productId/check-offer
CheckOffer(prods, user, productId) ==
    IF productId \notin 1..Len(prods)
    THEN [status |-> 404, hasOffer |-> FALSE, offerAmount |-> 0]
    ELSE
        LET offers == prods[productId].offerRequests
            mine == {i \in 1..Len(offers) : offers[i].buyer = user}
        IN  IF mine = {} THEN [status |-> 200, hasOffer |-> FALSE, offerAmount |-> 0]
            ELSE [status |-> 200, hasOffer |-> TRUE, offerAmount |-> offers[Min(mine)].offerPrice]

\* the loop of UpdateListing: one product_updated notification per offer,
\* given up at the first create that fails (failAt; 0: none fails)
RECURSIVE NotifyCancelled(_, _, _, _, _)
NotifyCancelled(notifs, offers, productId, k, failAt) ==
    IF offers = <<>> \/ k = failAt THEN notifs
    ELSE NotifyCancelled(CreateNotification(notifs, Head(offers).buyer, "product_updated", productId),
                         Tail(offers), productId, k + 1, failAt)

\* faulty variant: every edit of the listing cancels the offers
UpdateListing_AlwaysClear(prods, notifs, user, productId, price, clearOffers, failAt) ==
    IF productId \notin 1..Len(prods)
    THEN [products |-> prods, notifications |-> notifs,
          resp |-> Response("UpdateListing", user, productId, 404, 0)]
    ELSE IF prods[productId].seller # user
    THEN [products |-> prods, notifications |-> notifs,
          resp |-> Response("UpdateListing", user, productId, 403, 0)]
    ELSE
        LET product == prods[productId]
            clear == Len(product.offerRequests) > 0
        IN  [products |-> [prods EXCEPT ![productId] =
                    [@ EXCEPT !.offerRequests = IF clear THEN <<>> ELSE @,
                              !.price = IF price # 0 THEN price ELSE @]],
             notifications |-> IF clear
                               THEN NotifyCancelled(notifs, product.offerRequests, productId, 1, failAt)
                               ELSE notifs,
             resp |-> Response("UpdateListing", user, productId, 200, productId)]

\* PUT /products/:productId
UpdateListing(prods, notifs, user, productId, price, clearOffers, failAt) ==
    IF productId \notin 1..Len(prods)
    THEN [products |-> prods, notifications |-> notifs,
          resp |-> Response("UpdateListing", user, productId, 404, 0)]
    ELSE IF prods[productId].seller # user
    THEN [products |-> prods, notifications |-> notifs,
          resp |-> Response("UpdateListing", user, productId, 403, 0)]
    ELSE
        LET product == prods[productId]
            clear == clearOffers /\ Len(product.offerRequests) > 0
        IN  [products |-> [prods EXCEPT ![productId] =
                    [@ EXCEPT !.offerRequests = IF clear THEN <<>> ELSE @,
                              !.price = IF price # 0 THEN price ELSE @]],
             notifications |-> IF clear
                               THEN NotifyCancelled(notifs, product.offerRequests, productId, 1, failAt)
                               ELSE notifs,
             resp |-> Response("UpdateListing", user, productId, 200, productId)]

----------------------------------------------------------------------------
(* Specification SpecOffer: the product routes, one request at a time *)

\* a successful response, with the request it answers
Answered(response, user, productId, offerPrice) ==
    IF response.status = 200
    THEN response @@ [user |-> user, productId |-> productId, offerPrice |-> offerPrice]
    ELSE response

CallCreateProduct(user, price) ==
    LET r == CreateProduct(products, user, price)
    IN  /\ Len(r.products) <= MaxProducts
        /\ products' = r.products
        /\ resp' = r.resp
        /\ UNCHANGED <<convVars, reqs, twinVars, polls, notifications, nextOfferId>>

CallMakeOffer(user, productId, offerPrice, notifOk) ==
    LET r == MakeOffer(products, notifications, nextOfferId, user, productId, offerPrice, notifOk)
    IN  /\ r.nextOfferId <= MaxOffers + 1
        /\ Len(r.notifications) <= MaxNotifs
        /\ products' = r.products
        /\ notifications' = r.notifications
        /\ nextOfferId' = r.nextOfferId
        /\ resp' = Answered(r.resp, user, productId, offerPrice)
        /\ UNCHANGED <<convVars, reqs, twinVars, polls>>

CallAcceptOffer(user, productId, offerId, notifOk) ==
    LET r == AcceptOffer(products, notifications, user, productId, offerId, notifOk)
    IN  /\ Len(r.notifications) <= MaxNotifs
        /\ products' = r.products
        /\ notifications' = r.notifications
        /\ resp' = r.resp
        /\ UNCHANGED <<convVars, reqs, twinVars, polls, nextOfferId>>

CallDeclineOffer(user, productId, offerId, notifOk) ==
    LET r == DeclineOffer(products, notifications, user, productId, offerId, notifOk)
    IN  /\ Len(r.notifications) <= MaxNotifs
        /\ products' = r.products
        /\ notifications' = r.notifications
        /\ resp' = r.resp
        /\ UNCHANGED <<convVars, reqs, twinVars, polls, nextOfferId>>

CallUpdateListing(user, productId, price, clearOffers, failAt) ==
    LET r == UpdateListing(products, notifications, user, productId, price, clearOffers, failAt)
    IN  /\ Len(r.notifications) <= MaxNotifs
        /\ products' = r.products
        /\ notifications' = r.notifications
        /\ resp' = r.resp
        /\ UNCHANGED <<convVars, reqs, twinVars, polls, nextOfferId>>

CallApiOffers(user, productId, offerPrice) ==
    LET r == ApiOffers(products, nextOfferId, user, productId, offerPrice)
    IN  /\ r.nextOfferId <= MaxOffers + 1
        /\ products' = r.products
        /\ nextOfferId' = r.nextOfferId
        /\ resp' = Answered(r.resp, user, productId, offerPrice)
        /\ UNCHANGED <<convVars, reqs, twinVars, polls, notifications>>

NextOffer ==
    \/ \E u \in Users, x \in ListPrices : CallCreateProduct(u, x)
    \/ \E u \in Users, p \in ProductIds, x \in Prices, ok \in BOOLEAN : CallMakeOffer(u, p, x, ok)
    \/ \E u \in Users, p \in ProductIds, x \in Prices : CallApiOffers(u, p, x)
    \/ \E u \in Users, p \in ProductIds, o \in OfferIds, ok \in BOOLEAN : CallAcceptOffer(u, p, o, ok)
    \/ \E u \in Users, p \in ProductIds, o \in OfferIds, ok \in BOOLEAN : CallDeclineOffer(u, p, o, ok)
    \/ \E u \in Users, p \in ProductIds, x \in ListPrices, c \in BOOLEAN, f \in 0..2 :
            CallUpdateListing(u, p, x, c, f)

SpecOffer == Init /\ [][NextOffer]_vars

\* C9: an AcceptOffer that reports success leaves the product sold to the
\* buyer of the accepted offer, with no offer left, however many offers the
\* product held.
C9_AcceptLeavesSold ==
    [][\A u \in Users, p \in ProductIds, o \in OfferIds, ok \in BOOLEAN :
        (CallAcceptOffer(u, p, o, ok) /\ resp'.status = 200)
        => /\ products'[p].status = "sold"
           /\ products'[p].offerRequests = <<>>
           /\ \A offer \in OfferById(products[p], o) : products'[p].buyer = offer.buyer]_vars

\* C10: a product holds offers only while it is available, and a MakeOffer
\* on a product that is not available is rejected and adds no offer.
C10_OffersOnlyWhileAvailable ==
    /\ [](\A p \in 1..Len(products) :
            products[p].offerRequests # <<>> => products[p].status = "available")
    /\ [][\A u \in Users, p \in ProductIds, x \in Prices, ok \in BOOLEAN :
            (/\ CallMakeOffer(u, p, x, ok)
             /\ p \in 1..Len(products)
             /\ products[p].status # "available")
            => resp'.status \notin {200} /\ products' = products]_vars

OffersOf(product, buyer) ==
    {i \in 1..Len(product.offerRequests) : product.offerRequests[i].buyer = buyer}

\* C12: a product never holds two offers of one buyer, and after a buyer's
\* successful MakeOffer with price x the buyer holds exactly one offer, of
\* price x, which is what CheckOffer reports.
\* (Holds in SpecOffer, one request at a time; not in SpecOfferRace.)
C12_OneOfferPerBuyer ==
    /\ \A p \in 1..Len(products), u \in Users : Cardinality(OffersOf(products[p], u)) <= 1
    /\ (resp.op \in {"MakeOffer", "ApiOffers"} /\ resp.status = 200)
       => /\ Cardinality(OffersOf(products[resp.productId], resp.user)) = 1
          /\ CheckOffer(products, resp.user, resp.productId)
                = [status |-> 200, hasOffer |-> TRUE, offerAmount |-> resp.offerPrice]

\* C13: an AcceptOffer or DeclineOffer by a user who is not the product's
\* seller is answered Forbidden, changes no product and creates no
\* notification.
C13_NonSellerRefused ==
    [][\A u \in Users, p \in ProductIds, o \in OfferIds, ok \in BOOLEAN :
        (/\ CallAcceptOffer(u, p, o, ok) \/ CallDeclineOffer(u, p, o, ok)
         /\ p \in 1..Len(products)
         /\ products[p].seller # u)
        => /\ resp'.status = 403
           /\ products' = products
           /\ notifications' = notifications]_vars

\* C14: no product holds an offer of its own seller, and no MakeOffer of
\* the seller on their own product is answered with success.
C14_NoSelfOffer ==
    /\ \A p \in 1..Len(products) : OffersOf(products[p], products[p].seller) = {}
    /\ (resp.op = "MakeOffer" /\ resp.status = 200)
       => products[resp.productId].seller # resp.user

\* C15: when the notification of a MakeOffer, AcceptOffer, DeclineOffer or
\* clearing UpdateListing cannot be recorded, the caller gets the answer
\* and the product gets the change of the same request with the
\* notification recorded.
C15_NotificationFailureSwallowed ==
    [][/\ \A u \in Users, p \in ProductIds, x \in Prices :
            CallMakeOffer(u, p, x, FALSE)
            => LET r == MakeOffer(products, notifications, nextOfferId, u, p, x, TRUE)
               IN  resp'.status = r.resp.status /\ products' = r.products
       /\ \A u \in Users, p \in ProductIds, o \in OfferIds :
            /\ CallAcceptOffer(u, p, o, FALSE)
               => LET r == AcceptOffer(products, notifications, u, p, o, TRUE)
                  IN  resp'.status = r.resp.status /\ products' = r.products
            /\ CallDeclineOffer(u, p, o, FALSE)
               => LET r == DeclineOffer(products, notifications, u, p, o, TRUE)
                  IN  resp'.status = r.resp.status /\ products' = r.products
       /\ \A u \in Users, p \in ProductIds, x \in ListPrices, f \in 1..2 :
            CallUpdateListing(u, p, x, TRUE, f)
            => LET r == UpdateListing(products, notifications, u, p, x, TRUE, 0)
               IN  resp'.status = r.resp.status /\ products' = r.products]_vars

\* the notifications of a recipient, in creation order
RECURSIVE NotificationsOf(_, _)
NotificationsOf(notifs, userId) ==
    IF notifs = <<>> THEN <<>>
    ELSE IF Head(notifs).userId = userId
         THEN <<Head(notifs)>> \o NotificationsOf(Tail(notifs), userId)
         ELSE NotificationsOf(Tail(notifs), userId)

\* C16: with one request at a time, the notifications of each recipient
\* carry the notificationIds 1, 2, 3, ... in creation order, whatever was
\* created for other recipients in between, and are stored unread.
C16_NotificationIdsGapless ==
    \A u \in Users :
        LET mine == NotificationsOf(notifications, u)
        IN  \A i \in 1..Len(mine) : mine[i].notificationId = i /\ mine[i].read = FALSE

\* a recipient got a second notification after one for another recipient
C16_Witness ==
    /\ Len(notifications) = 3
    /\ notifications[1].userId = 1 /\ notifications[1].notificationId = 1
    /\ notifications[2].userId = 2 /\ notifications[2].notificationId = 1
    /\ notifications[3].userId = 1 /\ notifications[3].notificationId = 2

\* C32: a MakeOffer with a price that is not above zero is answered 400 and
\* stores nothing: no MakeOffer with such a price is answered with success,
\* and no product holds an offer whose offerPrice is not above zero.
C32_OfferPricesPositive ==
    /\ (resp.op = "MakeOffer" /\ resp.status = 200) => resp.offerPrice > 0
    /\ \A p \in 1..Len(products) :
          \A o \in Range(products[p].offerRequests) : o.offerPrice > 0

----------------------------------------------------------------------------
(* Specification SpecOfferObserve: the product routes, one request at a    *)
(* time, where MakeOffer comes with the prices it does not refuse and each *)
(* AcceptOffer, DeclineOffer and UpdateListing leaves in resp its response *)
(* together with the request, the product as it was found and as it was   *)
(* left, and the notifications the request stored                          *)

Unknown == [seller |-> NoUser]

ProductAt(prods, productId) ==
    IF productId \in 1..Len(prods) THEN prods[productId] ELSE Unknown

Observed(r, request) ==
    r.resp @@ request @@
    [before |-> ProductAt(products, request.productId),
     after |-> ProductAt(r.products, request.productId),
     sent |-> SubSeq(r.notifications, Len(notifications) + 1, Len(r.notifications))]

ObserveAcceptOffer(user, productId, offerId, notifOk) ==
    LET r == AcceptOffer(products, notifications, user, productId, offerId, notifOk)
    IN  /\ Len(r.notifications) <= MaxNotifs
        /\ products' = r.products
        /\ notifications' = r.notifications
        /\ resp' = Observed(r, [user |-> user, productId |-> productId, offerId |-> offerId])
        /\ UNCHANGED <<convVars, reqs, twinVars, polls, nextOfferId>>

ObserveDeclineOffer(user, productId, offerId, notifOk) ==
    LET r == DeclineOffer(products, notifications, user, productId, offerId, notifOk)
    IN  /\ Len(r.notifications) <= MaxNotifs
        /\ products' = r.products
        /\ notifications' = r.notifications
        /\ resp' = Observed(r, [user |-> user, productId |-> productId, offerId |-> offerId])
        /\ UNCHANGED <<convVars, reqs, twinVars, polls, nextOfferId>>

ObserveUpdateListing(user, productId, price, clearOffers, failAt) ==
    LET r == UpdateListing(products, notifications, user, productId, price, clearOffers, failAt)
    IN  /\ Len(r.notifications) <= MaxNotifs
        /\ products' = r.products
        /\ notifications' = r.notifications
        /\ resp' = Observed(r, [user |-> user, productId |-> productId,
                                clearOffers |-> clearOffers,
                                failed |-> /\ clearOffers
                                           /\ productId \in 1..Len(products)
                                           /\ failAt \in 1..Len(products[productId].offerRequests)])
        /\ UNCHANGED <<convVars, reqs, twinVars, polls, nextOfferId>>

\* the offer prices that MakeOffer stores (0 is refused)
StoredPrices == {x \in Prices : x # 0}

NextOfferObserve ==
    \/ \E u \in Users, x \in ListPrices : CallCreateProduct(u, x)
    \/ \E u \in Users, p \in ProductIds, x \in StoredPrices, ok \in BOOLEAN :
            CallMakeOffer(u, p, x, ok)
    \/ \E u \in Users, p \in ProductIds, o \in OfferIds, ok \in BOOLEAN : ObserveAcceptOffer(u, p, o, ok)
    \/ \E u \in Users, p \in ProductIds, o \in OfferIds, ok \in BOOLEAN : ObserveDeclineOffer(u, p, o, ok)
    \/ \E u \in Users, p \in ProductIds, x \in ListPrices, c \in BOOLEAN, f \in 0..2 :
            ObserveUpdateListing(u, p, x, c, f)

SpecOfferObserve == Init /\ [][NextOfferObserve]_vars

\* the offers of a product other than the one with this id
OthersOf(product, offerId) ==
    SelectSeq(product.offerRequests, LAMBDA o : o.id # offerId)

\* C22: a DeclineOffer that succeeds removes the offer it names and nothing
\* else: the product's status (available stays available) and buyer are as
\* before, and the offers of the other buyers are as before, buyer and price.
C22_DeclineRemovesOneOffer ==
    (resp.op = "DeclineOffer" /\ resp.status = 200)
    => /\ resp.after.status = resp.before.status
       /\ resp.before.status = "available" => resp.after.status = "available"
       /\ resp.after.buyer = resp.before.buyer
       /\ resp.after.offerRequests = OthersOf(resp.before, resp.offerId)
       /\ OfferById(resp.after, resp.offerId) = {}
       /\ \A o \in Range(resp.before.offerRequests) :
             o.id # resp.offerId => o \in Range(resp.after.offerRequests)

\* an available product held the offers of two buyers, one was declined
C22_Witness ==
    /\ resp.op = "DeclineOffer" /\ resp.status = 200
    /\ resp.before.status = "available"
    /\ Len(resp.before.offerRequests) = 2
    /\ Len(resp.after.offerRequests) = 1
    /\ products[resp.productId] = resp.after

\* C23: an AcceptOffer that names an offer the product does not hold is
\* answered 404, leaves the product's status, buyer and offers as they were
\* and stores no notification.
C23_AcceptUnknownOfferNotFound ==
    (/\ resp.op = "AcceptOffer"
     /\ resp.before.seller # NoUser
     /\ OfferById(resp.before, resp.offerId) = {})
    => /\ resp.status = 404
       /\ resp.after = resp.before
       /\ resp.sent = <<>>

\* C24: an AcceptOffer that succeeds stores exactly one notification, of
\* type offer_accepted, for the buyer of the accepted offer, and none for
\* any other buyer whose offer it cleared.
C24_AcceptNotifiesAcceptedBuyerOnly ==
    (resp.op = "AcceptOffer" /\ resp.status = 200)
    => /\ Len(resp.sent) = 1
       /\ resp.sent[1].type = "offer_accepted"
       /\ \E o \in OfferById(resp.before, resp.offerId) : resp.sent[1].userId = o.buyer

\* C29: an UpdateListing by the seller with clearOffers stores one
\* product_updated notification for each buyer who holds an offer, in the
\* order of the offers, and leaves the product without offers; without
\* clearOffers the offers are as before and no notification is stored.
\* (Stated of requests none of whose Notification.create calls fails.)
C29_ClearOffersNotifiesHolders ==
    (resp.op = "UpdateListing" /\ resp.status = 200 /\ ~resp.failed)
    => /\ resp.user = resp.before.seller
       /\ resp.clearOffers
            => /\ resp.after.offerRequests = <<>>
               /\ Len(resp.sent) = Len(resp.before.offerRequests)
               /\ \A i \in 1..Len(resp.sent) :
                     /\ resp.sent[i].type = "product_updated"
                     /\ resp.sent[i].userId = resp.before.offerRequests[i].buyer
                     /\ resp.sent[i].productId = resp.productId
               /\ \A b \in Users :
                     Cardinality({i \in 1..Len(resp.sent) : resp.sent[i].userId = b})
                       = IF OffersOf(resp.before, b) # {} THEN 1 ELSE 0
       /\ ~resp.clearOffers
            => /\ resp.after.offerRequests = resp.before.offerRequests
               /\ resp.sent = <<>>

\* the seller clears the offers of two buyers
C29_Witness ==
    /\ resp.op = "UpdateListing" /\ resp.status = 200 /\ ~resp.failed
    /\ resp.clearOffers
    /\ Len(resp.before.offerRequests) = 2
    /\ Len(resp.sent) = 2
    /\ resp.sent[1].userId # resp.sent[2].userId
    /\ products[resp.productId].offerRequests = <<>>

\* C34: sold is terminal: no step changes the status, the buyer or the
\* transaction date of a product that is sold.
C34_SoldIsTerminal ==
    [][\A p \in 1..Len(products) :
          products[p].status = "sold"
          => /\ products'[p].status = "sold"
             /\ products'[p].buyer = products[p].buyer
             /\ products'[p].transactionDate = products[p].transactionDate]_vars

----------------------------------------------------------------------------
(* Specification SpecMarkRead: the product routes of SpecOfferObserve and  *)
(* the routes that mark notifications as read; each response of the latter *)
(* carries the caller and the id asked for                                 *)

\* _id of a notification: its position in the collection (none is deleted)
NotifIds == 1..(MaxNotifs + 1)

\* faulty variant: the filter has no userId
MarkRead_AnyUser(notifs, user, id) ==
    IF id \notin 1..Len(notifs)
    THEN [notifications |-> notifs, resp |-> Response("MarkRead", user, id, 404, 0)]
    ELSE [notifications |-> [notifs EXCEPT ![id].read = TRUE],
          resp |-> Response("MarkRead", user, id, 200, 0)]

\* PUT /notifications/:id/read, PATCH /:id/read:
\* findOneAndUpdate({_id, userId: req.user._id}, {read: true})
MarkRead(notifs, user, id) ==
    IF id \notin 1..Len(notifs) \/ notifs[id].userId # user
    THEN [notifications |-> notifs, resp |-> Response("MarkRead", user, id, 404, 0)]
    ELSE [notifications |-> [notifs EXCEPT ![id].read = TRUE],
          resp |-> Response("MarkRead", user, id, 200, 0)]

\* PUT /notifications/read-all: updateMany({userId: req.user._id}, {read: true})
MarkAllRead(notifs, user) ==
    [notifications |-> [i \in 1..Len(notifs) |->
                            IF notifs[i].userId = user
                            THEN [notifs[i] EXCEPT !.read = TRUE] ELSE notifs[i]],
     resp |-> Response("MarkAllRead", user, 0, 200, 0)]

CallMarkRead(user, id) ==
    LET r == MarkRead(notifications, user, id)
    IN  /\ notifications' = r.notifications
        /\ resp' = r.resp @@ [user |-> user, id |-> id]
        /\ UNCHANGED <<convVars, reqs, twinVars, polls, products, nextOfferId>>

CallMarkAllRead(user) ==
    LET r == MarkAllRead(notifications, user)
    IN  /\ notifications' = r.notifications
        /\ resp' = r.resp @@ [user |-> user, id |-> 0]
        /\ UNCHANGED <<convVars, reqs, twinVars, polls, products, nextOfferId>>

NextMarkRead ==
    \/ \E u \in {1} : CallCreateProduct(u, 100)
    \/ \E u \in Users, p \in ProductIds, ok \in BOOLEAN : CallMakeOffer(u, p, 500, ok)
    \/ \E u \in Users, p \in ProductIds, o \in OfferIds, ok \in BOOLEAN : CallAcceptOffer(u, p, o, ok)
    \/ \E u \in Users, p \in ProductIds, o \in OfferIds, ok \in BOOLEAN : CallDeclineOffer(u, p, o, ok)
    \/ \E u \in Users, p \in ProductIds, c \in BOOLEAN, f \in 0..2 :
            CallUpdateListing(u, p, 100, c, f)
    \/ \E u \in Users, i \in NotifIds : CallMarkRead(u, i)
    \/ \E u \in Users : CallMarkAllRead(u)

SpecMarkRead == Init /\ [][NextMarkRead]_vars

\* notification i is as it was, or differs only in a read flag set to true
ReadOnlySet(i) ==
    \/ notifications'[i] = notifications[i]
    \/ /\ ~notifications[i].read
       /\ notifications'[i] = [notifications[i] EXCEPT !.read = TRUE]

\* C40: MarkRead and MarkAllRead by user U change only the read flag of
\* notifications whose recipient is U; MarkRead on a notification of another
\* user answers NotFound and changes nothing; no operation changes another
\* field of a notification that exists, and no read flag goes back from
\* true to false.
C40_ReadFlagFrame ==
    [][/\ Len(notifications') >= Len(notifications)
       /\ \A i \in 1..Len(notifications) : ReadOnlySet(i)
       /\ resp'.op \in {"MarkRead", "MarkAllRead"} =>
            /\ Len(notifications') = Len(notifications)
            /\ \A i \in 1..Len(notifications) :
                notifications'[i] # notifications[i] => notifications[i].userId = resp'.user
       /\ (/\ resp'.op = "MarkRead"
           /\ resp'.id \in 1..Len(notifications)
           /\ notifications[resp'.id].userId # resp'.user) =>
            /\ resp'.status = 404
            /\ notifications' = notifications]_vars

\* a user asks to mark a notification of another user, after some
\* notification was marked as read and while another is still unread
C40_Witness ==
    /\ resp.op = "MarkRead" /\ resp.status = 404
    /\ resp.id \in 1..Len(notifications)
    /\ notifications[resp.id].userId # resp.user
    /\ \E i, j \in 1..Len(notifications) :
        notifications[i].read /\ ~notifications[j].read

----------------------------------------------------------------------------
(* Specification SpecOfferRace: MakeOffer and AcceptOffer requests that    *)
(* may overlap.  A handler gives way at each await:                        *)
(*   MakeOffer:    findById | product.save | Notification.create | response*)
(*   AcceptOffer:  findById | Notification.create | product.save | response*)
(* Notification.create is itself two awaits: the findOne of the pre-save   *)
(* hook and the insert.  product.save of a document whose offerRequests    *)
(* array was assigned sends the whole array with the loaded version (__v)  *)
(* in its filter and fails when another save has changed the version since *)
(* the load; stale records that.                                           *)

MaxOfferReqs == 4     \* offer requests that may be started
MaxRaceNotifs == 4    \* notifications that may be stored by them
Seller == 1
Buyers == {2, 3}

NoProduct == NewProduct(NoUser, 0)
IdleOfferReq == [op |-> "none", pc |-> "idle", id |-> 0, with |-> {}, user |-> NoUser, arg |-> 0,
                 offerId |-> 0, offerPrice |-> 0, doc |-> NoProduct, stale |-> FALSE,
                 lastNotification |-> 0, resp |-> NoResponse]

InitOfferRace ==
    /\ InitConv
    /\ resp = NoResponse
    /\ reqs = [started |-> 0, at |-> [s \in Slots |-> IdleOfferReq]]
    /\ IdleTwin
    /\ IdleOffers
    /\ IdlePolls

\* faulty variant: a save does not notice that the product was saved since
\* it was loaded
MarkStale_None(at, s, productId) == at

\* the other requests that hold a copy of the product loaded before this save
MarkStale(at, s, productId) ==
    [t \in Slots |->
        IF t # s /\ at[t].arg = productId /\ at[t].pc \in {"notifFind", "notifInsert", "save"}
        THEN [at[t] EXCEPT !.stale = TRUE]
        ELSE at[t]]

\* the recipient of the notification a request creates
Recipient(r) ==
    IF r.op = "MakeOffer" THEN r.doc.seller
    ELSE (CHOOSE o \in OfferById(r.doc, r.offerId) : TRUE).buyer

StartMakeOffer(s, user, productId, offerPrice) ==
    /\ reqs.at[s].pc \in {"idle", "done"}
    /\ reqs.started < MaxOfferReqs
    /\ reqs' = [reqs EXCEPT
            !.started = @ + 1,
            !.at[s] = [IdleOfferReq EXCEPT
                !.op = "MakeOffer", !.id = reqs.started + 1, !.with = InFlight,
                !.user = user, !.arg = productId, !.offerPrice = offerPrice,
                !.pc = IF offerPrice = 0 THEN "done" ELSE "load",
                !.resp = IF offerPrice = 0 THEN Response("MakeOffer", user, productId, 400, 0)
                         ELSE NoResponse]]
    /\ UNCHANGED <<convVars, resp, twinVars, polls, offerVars>>

\* await Product.findById(productId)
MakeOfferLoad(s) ==
    LET r == reqs.at[s]
    IN  /\ r.op = "MakeOffer" /\ r.pc = "load"
        /\ IF r.arg \notin 1..Len(products)
           THEN Finish(s, Response("MakeOffer", r.user, r.arg, 404, 0))
           ELSE reqs' = [reqs EXCEPT !.at[s].pc = "save", !.at[s].doc = products[r.arg]]
        /\ UNCHANGED <<convVars, resp, twinVars, polls, offerVars>>

\* the offerRequests rewritten from the loaded copy; await product.save()
MakeOfferSave(s) ==
    LET r == reqs.at[s]
        offers == Append(FilterOffers(r.doc.offerRequests, "buyer", r.user),
                         [id |-> nextOfferId, buyer |-> r.user, offerPrice |-> r.offerPrice])
    IN  /\ r.op = "MakeOffer" /\ r.pc = "save"
        /\ nextOfferId <= MaxOffers
        /\ IF r.stale
           THEN /\ Finish(s, Response("MakeOffer", r.user, r.arg, 500, 0))
                /\ UNCHANGED <<products, nextOfferId>>
           ELSE /\ products' = [products EXCEPT ![r.arg].offerRequests = offers]
                /\ nextOfferId' = nextOfferId + 1
                /\ reqs' = [reqs EXCEPT !.at = [MarkStale(reqs.at, s, r.arg) EXCEPT
                                                    ![s].pc = "notifFind"]]
        /\ UNCHANGED <<convVars, resp, twinVars, polls, notifications>>

\* notificationSchema.pre('save'): await findOne(...).sort({notificationId: -1})
NotificationFind(s) ==
    LET r == reqs.at[s]
    IN  /\ r.pc = "notifFind"
        /\ reqs' = [reqs EXCEPT !.at[s].pc = "notifInsert",
                                !.at[s].lastNotification =
                                    NextNotificationId(notifications, Recipient(r)) - 1]
        /\ UNCHANGED <<convVars, resp, twinVars, polls, offerVars>>

\* the insert of Notification.create; MakeOffer then responds, AcceptOffer
\* goes on to change the product
NotificationInsert(s) ==
    LET r == reqs.at[s]
        n == [notificationId |-> r.lastNotification + 1, userId |-> Recipient(r),
              type |-> IF r.op = "MakeOffer" THEN "offer_received" ELSE "offer_accepted",
              productId |-> r.arg, read |-> FALSE]
    IN  /\ r.pc = "notifInsert"
        /\ Len(notifications) < MaxRaceNotifs
        /\ notifications' = Append(notifications, n)
        /\ IF r.op = "MakeOffer"
           THEN Finish(s, Response("MakeOffer", r.user, r.arg, 200, 0))
           ELSE reqs' = [reqs EXCEPT !.at[s].pc = "save"]
        /\ UNCHANGED <<convVars, resp, twinVars, polls, products, nextOfferId>>

StartAcceptOffer(s, user, productId, offerId) ==
    /\ reqs.at[s].pc \in {"idle", "done"}
    /\ reqs.started < MaxOfferReqs
    /\ reqs' = [reqs EXCEPT
            !.started = @ + 1,
            !.at[s] = [IdleOfferReq EXCEPT
                !.op = "AcceptOffer", !.id = reqs.started + 1, !.with = InFlight,
                !.user = user, !.arg = productId, !.offerId = offerId, !.pc = "load"]]
    /\ UNCHANGED <<convVars, resp, twinVars, polls, offerVars>>

\* await Product.findById(productId); product.offerRequests.id(offerId).
\* Without the offer nothing is modified, save() writes nothing and the
\* handler responds.
AcceptOfferLoad(s) ==
    LET r == reqs.at[s]
    IN  /\ r.op = "AcceptOffer" /\ r.pc = "load"
        /\ IF r.arg \notin 1..Len(products)
           THEN Finish(s, Response("AcceptOffer", r.user, r.arg, 404, 0))
           ELSE IF OfferById(products[r.arg], r.offerId) = {}
           THEN Finish(s, Response("AcceptOffer", r.user, r.arg, 200, r.arg))
           ELSE reqs' = [reqs EXCEPT !.at[s].pc = "notifFind", !.at[s].doc = products[r.arg]]
        /\ UNCHANGED <<convVars, resp, twinVars, polls, offerVars>>

\* status, buyer, transactionDate and offerRequests = []; await product.save()
AcceptOfferSave(s) ==
    LET r == reqs.at[s]
        offer == CHOOSE o \in OfferById(r.doc, r.offerId) : TRUE
    IN  /\ r.op = "AcceptOffer" /\ r.pc = "save"
        /\ IF r.stale
           THEN /\ Finish(s, Response("AcceptOffer", r.user, r.arg, 500, 0))
                /\ UNCHANGED products
           ELSE /\ products' = [products EXCEPT ![r.arg] =
                        [@ EXCEPT !.status = "sold", !.buyer = offer.buyer,
                                  !.transactionDate = TRUE, !.offerRequests = <<>>]]
                /\ reqs' = [reqs EXCEPT !.at = [MarkStale(reqs.at, s, r.arg) EXCEPT
                                ![s].pc = "done",
                                ![s].resp = Response("AcceptOffer", r.user, r.arg, 200, r.arg)]]
        /\ UNCHANGED <<convVars, resp, twinVars, polls, notifications, nextOfferId>>

StartApiOffers(s, user, productId, offerPrice) ==
    /\ reqs.at[s].pc \in {"idle", "done"}
    /\ reqs.started < MaxOfferReqs
    /\ reqs' = [reqs EXCEPT
            !.started = @ + 1,
            !.at[s] = [IdleOfferReq EXCEPT
                !.op = "ApiOffers", !.id = reqs.started + 1, !.with = InFlight,
                !.user = user, !.arg = productId, !.offerPrice = offerPrice, !.pc = "load"]]
    /\ UNCHANGED <<convVars, resp, twinVars, polls, offerVars>>

\* await Product.findById(productId)
ApiOffersLoad(s) ==
    LET r == reqs.at[s]
    IN  /\ r.op = "ApiOffers" /\ r.pc = "load"
        /\ IF r.arg \notin 1..Len(products)
           THEN Finish(s, Response("ApiOffers", r.user, r.arg, 404, 0))
           ELSE reqs' = [reqs EXCEPT !.at[s].pc = "save", !.at[s].doc = products[r.arg]]
        /\ UNCHANGED <<convVars, resp, twinVars, polls, offerVars>>

\* await product.save().  An offer found in the loaded copy is changed in
\* place: the save sets offerRequests.<index>.offerPrice and carries the
\* loaded version.  Otherwise the offer was pushed: the save appends it to
\* the stored array, whatever the stored version, and increments it.
ApiOffersSave(s) ==
    LET r == reqs.at[s]
        mine == OffersOf(r.doc, r.user)
    IN  /\ r.op = "ApiOffers" /\ r.pc = "save"
        /\ IF mine # {}
           THEN /\ IF r.stale
                   THEN /\ Finish(s, Response("ApiOffers", r.user, r.arg, 500, 0))
                        /\ UNCHANGED products
                   ELSE /\ products' = [products EXCEPT
                                ![r.arg].offerRequests[Min(mine)].offerPrice = r.offerPrice]
                        /\ Finish(s, Response("ApiOffers", r.user, r.arg, 200, r.offerPrice))
                /\ UNCHANGED nextOfferId
           ELSE /\ nextOfferId <= MaxOffers
                /\ products' = [products EXCEPT ![r.arg].offerRequests =
                        Append(@, [id |-> nextOfferId, buyer |-> r.user, offerPrice |-> r.offerPrice])]
                /\ nextOfferId' = nextOfferId + 1
                /\ reqs' = [reqs EXCEPT !.at = [MarkStale(reqs.at, s, r.arg) EXCEPT
                                ![s].pc = "done",
                                ![s].resp = Response("ApiOffers", r.user, r.arg, 200, r.offerPrice)]]
        /\ UNCHANGED <<convVars, resp, twinVars, polls, notifications>>

NextOfferRace ==
    \/ CallCreateProduct(Seller, 100)
    \/ \E s \in Slots, u \in Buyers, p \in 1..MaxProducts, x \in {0, 500} : StartMakeOffer(s, u, p, x)
    \/ \E s \in Slots : MakeOfferLoad(s)
    \/ \E s \in Slots : MakeOfferSave(s)
    \/ \E s \in Slots : NotificationFind(s)
    \/ \E s \in Slots : NotificationInsert(s)
    \/ \E s \in Slots, p \in 1..MaxProducts, o \in OfferIds : StartAcceptOffer(s, Seller, p, o)
    \/ \E s \in Slots : AcceptOfferLoad(s)
    \/ \E s \in Slots : AcceptOfferSave(s)
    \/ \E s \in Slots, u \in Buyers, p \in 1..MaxProducts : StartApiOffers(s, u, p, 600)
    \/ \E s \in Slots : ApiOffersLoad(s)
    \/ \E s \in Slots : ApiOffersSave(s)

SpecOfferRace == InitOfferRace /\ [][NextOfferRace]_vars

\* two completed requests that were in flight together, whatever they answered
RanTogether(s, t) ==
    /\ s # t
    /\ reqs.at[s].pc = "done" /\ reqs.at[t].pc = "done"
    /\ reqs.at[s].id \in reqs.at[t].with \/ reqs.at[t].id \in reqs.at[s].with

\* C11: after an AcceptOffer of an offer the product held and a MakeOffer on
\* the same product that were in flight together, the product is sold and
\* holds no offer.
C11_AcceptMakeOfferRace ==
    \A s, t \in Slots :
        LET a == reqs.at[s]
            b == reqs.at[t]
        IN  (/\ RanTogether(s, t)
             /\ a.op = "AcceptOffer" /\ b.op = "MakeOffer" /\ a.arg = b.arg
             /\ a.doc # NoProduct /\ b.doc # NoProduct)
            => /\ products[a.arg].status = "sold"
               /\ products[a.arg].offerRequests = <<>>

\* C17: no two notifications of one recipient share a notificationId, also
\* when the requests that created them were in flight together.
C17_NotificationIdsDistinct ==
    \A i, j \in 1..Len(notifications) :
        (i # j /\ notifications[i].userId = notifications[j].userId)
        => notifications[i].notificationId # notifications[j].notificationId

\* C35: in every state, between the steps of an AcceptOffer and after a save
\* that failed as well, an offer_accepted notification for a product is
\* addressed to the product's buyer and the product is sold; so all
\* offer_accepted notifications of a product are addressed to one user.
C35_AcceptedNotificationMeansSold ==
    /\ \A i \in 1..Len(notifications) :
          notifications[i].type = "offer_accepted"
          => /\ products[notifications[i].productId].status = "sold"
             /\ products[notifications[i].productId].buyer = notifications[i].userId
    /\ \A i, j \in 1..Len(notifications) :
          (/\ notifications[i].type = "offer_accepted"
           /\ notifications[j].type = "offer_accepted"
           /\ notifications[i].productId = notifications[j].productId)
          => notifications[i].userId = notifications[j].userId

\* C36: of two AcceptOffer requests for the offers of two buyers on one
\* product that were in flight together, both having found their offer,
\* exactly one is answered with success; the product's buyer is the buyer
\* it named, and the buyer the other one named has no offer_accepted
\* notification for the product.
C36_OneAcceptWins ==
    \A s, t \in Slots :
        LET a == reqs.at[s]
            b == reqs.at[t]
        IN  (/\ RanTogether(s, t)
             /\ a.op = "AcceptOffer" /\ b.op = "AcceptOffer" /\ a.arg = b.arg
             /\ a.doc # NoProduct /\ b.doc # NoProduct
             /\ Recipient(a) # Recipient(b)
             /\ a.resp.status = 200)
            => /\ b.resp.status # 200
               /\ products[a.arg].buyer = Recipient(a)
               /\ \A i \in 1..Len(notifications) :
                     ~ /\ notifications[i].type = "offer_accepted"
                       /\ notifications[i].productId = b.arg
                       /\ notifications[i].userId = Recipient(b)

----------------------------------------------------------------------------
(* Specification SpecNotifPoll: MakeOffer and AcceptOffer requests that    *)
(* may overlap, as in SpecOfferRace, and the seller polling                *)
(* GET /notifications/after/:notificationId with the highest               *)
(* notificationId received so far (0 before the first)                     *)

\* .sort({notificationId: 1}) of the documents in S, named by their position
RECURSIVE SortByNotificationId(_, _)
SortByNotificationId(notifs, S) ==
    IF S = {} THEN <<>>
    ELSE LET first == CHOOSE i \in S : \A j \in S :
                          \/ notifs[i].notificationId < notifs[j].notificationId
                          \/ notifs[i].notificationId = notifs[j].notificationId /\ i <= j
         IN  <<first>> \o SortByNotificationId(notifs, S \ {first})

\* Notification.find({userId, notificationId: {$gt: afterId}}).sort(...)
ListSince(notifs, user, afterId) ==
    SortByNotificationId(notifs,
        {i \in 1..Len(notifs) : notifs[i].userId = user /\ notifs[i].notificationId > afterId})

NoNotifPoll == [cursor |-> 0, got |-> <<>>, ascending |-> TRUE, foreign |-> FALSE]

InitNotifPoll ==
    /\ InitConv
    /\ resp = NoResponse
    /\ reqs = [started |-> 0, at |-> [s \in Slots |-> IdleOfferReq]]
    /\ IdleTwin
    /\ IdleOffers
    /\ polls = NoNotifPoll

\* one poll of the client; a poll that returns nothing leaves the client as
\* it was
PollListSince(user) ==
    LET r == ListSince(notifications, user, polls.cursor)
        idAt(k) == notifications[r[k]].notificationId
    IN  /\ r # <<>>
        /\ polls' = [cursor |-> idAt(Len(r)),
                     got |-> polls.got \o r,
                     ascending |-> /\ polls.ascending
                                   /\ \A k \in 1..(Len(r) - 1) : idAt(k) <= idAt(k + 1),
                     foreign |-> \/ polls.foreign
                                 \/ \E k \in 1..Len(r) : notifications[r[k]].userId # user]
        /\ UNCHANGED <<convVars, resp, reqs, twinVars, offerVars>>

NextNotifPoll ==
    \/ CallCreateProduct(Seller, 100)
    \/ \E s \in Slots, u \in Buyers, p \in 1..MaxProducts : StartMakeOffer(s, u, p, 500)
    \/ \E s \in Slots : MakeOfferLoad(s)
    \/ \E s \in Slots : MakeOfferSave(s)
    \/ \E s \in Slots : NotificationFind(s)
    \/ \E s \in Slots : NotificationInsert(s)
    \/ \E s \in Slots, p \in 1..MaxProducts, o \in OfferIds : StartAcceptOffer(s, Seller, p, o)
    \/ \E s \in Slots : AcceptOfferLoad(s)
    \/ \E s \in Slots : AcceptOfferSave(s)
    \/ PollListSince(Seller)

SpecNotifPoll == InitNotifPoll /\ [][NextNotifPoll]_vars

\* C30: polling with the highest notificationId received so far hands the
\* recipient every notification addressed to it, exactly once: a stored
\* notification of the recipient has been received or lies above the cursor,
\* none has been received twice, every result was in ascending
\* notificationId order and none held a notification of another user,
\* however the requests that store the notifications interleave.
C30_NotificationCursorComplete ==
    /\ \A i \in 1..Len(notifications) :
          notifications[i].userId = Seller
          => \/ i \in Range(polls.got)
             \/ notifications[i].notificationId > polls.cursor
    /\ \A k, l \in 1..Len(polls.got) : k # l => polls.got[k] # polls.got[l]
    /\ polls.ascending
    /\ ~polls.foreign

====
